---- MODULE Spec2Model ----
(***************************************************************************)
(* Model of src/display_device.cpp (Sunshine display device handling).     *)
(*                                                                         *)
(* The module has two layers:                                              *)
(*   - the configuration parser (pure operators: parse_resolution_string,  *)
(*     parse_refresh_rate_string, parse_*_option, parse_configuration);    *)
(*   - the orchestrator state machine around DD_DATA (mutex,               *)
(*     config_revert_delay, sm_instance) with concurrent callers and the   *)
(*     retry scheduler's background thread.                                *)
(*                                                                         *)
(* Strings are sequences of one-character strings.  Unsigned 32-bit values *)
(* are kept as two 16-bit limbs [hi, lo] so that the full range up to      *)
(* 4294967295 is represented exactly.                                      *)
(***************************************************************************)
EXTENDS Integers, Sequences, FiniteSets, TLC

----------------------------------------------------------------------------
(* Unsigned 32-bit integers and string helpers                             *)

Limb == 65536

\* the empty std::optional; a record so that it compares with record values
NullOpt == [nullopt |-> TRUE]

\* std::out_of_range thrown by a conversion
OutOfRange == [out_of_range |-> TRUE]

U32(n) == [hi |-> n \div Limb, lo |-> n % Limb]

Digits == {"0", "1", "2", "3", "4", "5", "6", "7", "8", "9"}

DigitVal(c) ==
  CASE c = "0" -> 0 [] c = "1" -> 1 [] c = "2" -> 2 [] c = "3" -> 3
    [] c = "4" -> 4 [] c = "5" -> 5 [] c = "6" -> 6 [] c = "7" -> 7
    [] c = "8" -> 8 [] c = "9" -> 9

AllDigits(s) == Len(s) > 0 /\ \A i \in 1..Len(s) : s[i] \in Digits

\* index of the first occurrence of character c in s, 0 when absent
IndexOf(s, c) ==
  IF \E i \in 1..Len(s) : s[i] = c
    THEN CHOOSE i \in 1..Len(s) : s[i] = c /\ \A j \in 1..(i - 1) : s[j] # c
    ELSE 0

RECURSIVE trim_left_copy_if(_, _)
trim_left_copy_if(s, c) ==
  IF Len(s) > 0 /\ s[1] \in c THEN trim_left_copy_if(Tail(s), c) ELSE s

\* variant: nothing is trimmed on the right
trim_right_copy_if_keep(s, c) == s

RECURSIVE trim_right_copy_if(_, _)
trim_right_copy_if(s, c) ==
  IF Len(s) > 0 /\ s[Len(s)] \in c
    THEN trim_right_copy_if(SubSeq(s, 1, Len(s) - 1), c)
    ELSE s

trim_copy(s) == trim_right_copy_if(trim_left_copy_if(s, {" "}), {" "})

\* std::stoul followed by the range check of stou: the value of a digit
\* string as an unsigned int, or out_of_range when it exceeds UINT_MAX
RECURSIVE stou_acc(_, _)
stou_acc(s, acc) ==
  IF acc = OutOfRange \/ Len(s) = 0 THEN acc
  ELSE LET lo2 == acc.lo * 10 + DigitVal(s[1])
           hi2 == acc.hi * 10 + (lo2 \div Limb)
       IN  stou_acc(Tail(s),
                    IF hi2 >= Limb THEN OutOfRange
                                   ELSE [hi |-> hi2, lo |-> lo2 % Limb])

\* variant: a value above UINT_MAX is stored as UINT_MAX
stou_saturating(value) ==
  LET result == stou_acc(trim_left_copy_if(value, {"0"}), U32(0))
  IN  IF result = OutOfRange THEN [hi |-> Limb - 1, lo |-> Limb - 1] ELSE result

stou(value) == stou_acc(trim_left_copy_if(value, {"0"}), U32(0))

----------------------------------------------------------------------------
(* parse_resolution_string / parse_refresh_rate_string                     *)

\* std::regex_match(trimmed_input, match, R"(^(\d+)x(\d+)$)")
resolution_regex(s) ==
  LET i == IndexOf(s, "x") IN
  IF i > 0 /\ AllDigits(SubSeq(s, 1, i - 1)) /\ AllDigits(SubSeq(s, i + 1, Len(s)))
    THEN [matched |-> TRUE, m1 |-> SubSeq(s, 1, i - 1), m2 |-> SubSeq(s, i + 1, Len(s))]
    ELSE [matched |-> FALSE, m1 |-> <<>>, m2 |-> <<>>]

\* returns [ret, output]; output keeps the caller's value when nothing is assigned
parse_resolution_string(input, output) ==
  LET trimmed_input == trim_copy(input)
      match == resolution_regex(trimmed_input)
  IN  IF match.matched
        THEN LET w == stou(match.m1)
                 h == stou(match.m2)
             IN  IF w = OutOfRange \/ h = OutOfRange
                   THEN [ret |-> FALSE, output |-> output]
                   ELSE [ret |-> TRUE, output |-> [m_width |-> w, m_height |-> h]]
        ELSE IF Len(trimmed_input) = 0
               THEN [ret |-> TRUE, output |-> NullOpt]
               ELSE [ret |-> FALSE, output |-> output]

\* std::regex_match(trimmed_input, match, R"(^(\d+)(?:\.(\d+))?$)")
refresh_rate_regex(s) ==
  LET i == IndexOf(s, ".") IN
  IF i = 0
    THEN [matched |-> AllDigits(s), m1 |-> s, m2_matched |-> FALSE, m2 |-> <<>>]
    ELSE [matched |-> AllDigits(SubSeq(s, 1, i - 1)) /\ AllDigits(SubSeq(s, i + 1, Len(s))),
          m1 |-> SubSeq(s, 1, i - 1), m2_matched |-> TRUE, m2 |-> SubSeq(s, i + 1, Len(s))]

\* largest n for which 10^n fits an unsigned int
MaxPow10Exp == 9

RECURSIVE pow10(_)
pow10(n) == IF n = 0 THEN U32(1)
            ELSE LET p == pow10(n - 1)
                     lo2 == p.lo * 10
                 IN  [hi |-> p.hi * 10 + (lo2 \div Limb), lo |-> lo2 % Limb]

\* static_cast<unsigned int>(std::pow(10, n)): exact while 10^n fits; beyond
\* that the conversion of the out-of-range double is undefined, and the value
\* stored is whatever the build produces (any member of wrapped)
denominator_values(n, wrapped) ==
  IF n <= MaxPow10Exp THEN {pow10(n)} ELSE wrapped

\* returns [ret, output] for a given outcome den of the denominator cast
parse_refresh_rate_string_den(input, output, wrapped) ==
  LET trimmed_input == trim_copy(input)
      match == refresh_rate_regex(trimmed_input)
  IN  IF match.matched
        THEN LET tm1 == trim_left_copy_if(match.m1, {"0"})
                 trimmed_match_1 == IF Len(tm1) = 0 THEN <<"0">> ELSE tm1
                 trimmed_match_2 == IF match.m2_matched
                                      THEN trim_right_copy_if(match.m2, {"0"})
                                      ELSE <<>>
             IN  IF Len(trimmed_match_2) > 0
                   THEN LET numerator == stou(trimmed_match_1 \o trimmed_match_2)
                        IN  IF numerator = OutOfRange
                              THEN {[ret |-> FALSE, output |-> output]}
                              ELSE {[ret |-> TRUE,
                                     output |-> [m_numerator |-> numerator, m_denominator |-> d]] :
                                       d \in denominator_values(Len(trimmed_match_2), wrapped)}
                   ELSE LET numerator == stou(trimmed_match_1)
                        IN  IF numerator = OutOfRange
                              THEN {[ret |-> FALSE, output |-> output]}
                              ELSE {[ret |-> TRUE,
                                     output |-> [m_numerator |-> numerator, m_denominator |-> U32(1)]]}
        ELSE IF Len(trimmed_input) = 0
               THEN {[ret |-> TRUE, output |-> NullOpt]}
               ELSE {[ret |-> FALSE, output |-> output]}

\* values an out-of-range double-to-unsigned conversion is known to produce:
\* zero, the low 32 bits of the truncated value, and UINT_MAX
WrappedDenominators ==
  {U32(0), [hi |-> 21515, lo |-> 58368], [hi |-> Limb - 1, lo |-> Limb - 1]}

\* the set of results parse_refresh_rate_string can produce for input
parse_refresh_rate_string(input, output) ==
  parse_refresh_rate_string_den(input, output, WrappedDenominators)

----------------------------------------------------------------------------
(* parse_*_option and parse_configuration                                  *)

\* variant: the disabled option is read as "verify_only"
parse_device_prep_option_never_disabled(video_config) ==
  CASE video_config.configuration_option = "ensure_active" -> "EnsureActive"
    [] video_config.configuration_option = "ensure_primary" -> "EnsurePrimary"
    [] video_config.configuration_option = "ensure_only_display" -> "EnsureOnlyDisplay"
    [] OTHER -> "VerifyOnly"

parse_device_prep_option(video_config) ==
  CASE video_config.configuration_option = "verify_only" -> "VerifyOnly"
    [] video_config.configuration_option = "ensure_active" -> "EnsureActive"
    [] video_config.configuration_option = "ensure_primary" -> "EnsurePrimary"
    [] video_config.configuration_option = "ensure_only_display" -> "EnsureOnlyDisplay"
    [] OTHER -> "nullopt"

\* variant: the automatic resolution is taken from the session whatever
\* enable_sops is
parse_resolution_option_ignore_sops(video_config, session, config) ==
  CASE video_config.resolution_option = "automatic" ->
         IF session.width >= 0 /\ session.height >= 0
           THEN [ret |-> TRUE,
                 config |-> [config EXCEPT !.m_resolution =
                               [m_width |-> U32(session.width),
                                m_height |-> U32(session.height)]]]
           ELSE [ret |-> FALSE, config |-> config]
    [] OTHER -> [ret |-> TRUE, config |-> config]

\* variant: only the session height is required to be non-negative
parse_resolution_option_height_only(video_config, session, config) ==
  CASE video_config.resolution_option = "automatic" /\ session.enable_sops ->
         IF session.height >= 0
           THEN [ret |-> TRUE,
                 config |-> [config EXCEPT !.m_resolution =
                               [m_width |-> U32(0), m_height |-> U32(session.height)]]]
           ELSE [ret |-> FALSE, config |-> config]
    [] OTHER -> [ret |-> TRUE, config |-> config]

\* returns [ret, config]
parse_resolution_option(video_config, session, config) ==
  CASE video_config.resolution_option = "automatic" ->
         IF ~session.enable_sops
           THEN [ret |-> TRUE, config |-> config]
           ELSE IF session.width >= 0 /\ session.height >= 0
                  THEN [ret |-> TRUE,
                        config |-> [config EXCEPT !.m_resolution =
                                      [m_width |-> U32(session.width),
                                       m_height |-> U32(session.height)]]]
                  ELSE [ret |-> FALSE, config |-> config]
    [] video_config.resolution_option = "manual" ->
         IF ~session.enable_sops
           THEN [ret |-> TRUE, config |-> config]
           ELSE LET r == parse_resolution_string(video_config.manual_resolution,
                                                 config.m_resolution)
                    c2 == [config EXCEPT !.m_resolution = r.output]
                IN  IF ~r.ret THEN [ret |-> FALSE, config |-> c2]
                    ELSE IF c2.m_resolution = NullOpt
                           THEN [ret |-> FALSE, config |-> c2]
                           ELSE [ret |-> TRUE, config |-> c2]
    [] OTHER -> [ret |-> TRUE, config |-> config]

\* variant: a manual refresh rate without a value is accepted
parse_refresh_rate_option_allow_unset(video_config, session, config) ==
  CASE video_config.refresh_rate_option = "automatic" ->
         IF session.fps >= 0
           THEN {[ret |-> TRUE,
                  config |-> [config EXCEPT !.m_refresh_rate =
                                [m_numerator |-> U32(session.fps),
                                 m_denominator |-> U32(1)]]]}
           ELSE {[ret |-> FALSE, config |-> config]}
    [] video_config.refresh_rate_option = "manual" ->
         {[ret |-> r.ret, config |-> [config EXCEPT !.m_refresh_rate = r.output]] :
            r \in parse_refresh_rate_string(video_config.manual_refresh_rate,
                                            config.m_refresh_rate)}
    [] OTHER -> {[ret |-> TRUE, config |-> config]}

\* returns the set of [ret, config] the call can produce
parse_refresh_rate_option(video_config, session, config) ==
  CASE video_config.refresh_rate_option = "automatic" ->
         IF session.fps >= 0
           THEN {[ret |-> TRUE,
                  config |-> [config EXCEPT !.m_refresh_rate =
                                [m_numerator |-> U32(session.fps),
                                 m_denominator |-> U32(1)]]]}
           ELSE {[ret |-> FALSE, config |-> config]}
    [] video_config.refresh_rate_option = "manual" ->
         {LET c2 == [config EXCEPT !.m_refresh_rate = r.output]
          IN  IF ~r.ret THEN [ret |-> FALSE, config |-> c2]
              ELSE IF c2.m_refresh_rate = NullOpt
                     THEN [ret |-> FALSE, config |-> c2]
                     ELSE [ret |-> TRUE, config |-> c2] :
            r \in parse_refresh_rate_string(video_config.manual_refresh_rate,
                                            config.m_refresh_rate)}
    [] OTHER -> {[ret |-> TRUE, config |-> config]}

parse_hdr_option(video_config, session) ==
  CASE video_config.hdr_option = "automatic" ->
         IF session.enable_hdr THEN "Enabled" ELSE "Disabled"
    [] OTHER -> "nullopt"

failed_to_parse_tag_t == [tag |-> "failed_to_parse"]

configuration_disabled_tag_t == [tag |-> "configuration_disabled"]

\* the set of results parse_configuration can return
parse_configuration(video_config, session) ==
  LET device_prep == parse_device_prep_option(video_config) IN
  IF device_prep = "nullopt" THEN {configuration_disabled_tag_t}
  ELSE LET config == [m_device_id |-> video_config.output_name,
                      m_device_prep |-> device_prep,
                      m_resolution |-> NullOpt,
                      m_refresh_rate |-> NullOpt,
                      m_hdr_state |-> parse_hdr_option(video_config, session)]
           res == parse_resolution_option(video_config, session, config)
       IN  IF ~res.ret THEN {failed_to_parse_tag_t}
           ELSE {IF ~rr.ret THEN failed_to_parse_tag_t
                            ELSE [tag |-> "config", config |-> rr.config] :
                   rr \in parse_refresh_rate_option(video_config, session, res.config)}

----------------------------------------------------------------------------
(* Bounds and inputs of the orchestrator model                             *)

\* number of concurrent caller threads
NumCallers == 2

\* number of shutdown handles that may be alive at once
MaxHandles == 2

\* number of attempts followed for one scheduled operation
MaxAttempts == 4

\* largest step by which the clock advances at once (milliseconds)
TickUnit == 2500

\* DEFAULT_RETRY_INTERVAL in milliseconds
DEFAULT_RETRY_INTERVAL == 5000

Callers == 1..NumCallers

\* values of video_config.dd.config_revert_delay (milliseconds)
Delays == {0, 2500, 7500}

\* output names passed to map_output_name, and names the manager may answer
OutputNames == {<<"X">>, <<"D", "P", "1">>}

DisplayNames == {<<"D", "I", "S", "P", "L", "A", "Y", "1">>}

ApplyResult == {"Ok", "ApiTemporarilyUnavailable", "PermanentFailure"}

\* user configurations and sessions handed to configure_display(video_config, session)
BaseVideoConfig ==
  [configuration_option |-> "ensure_active", resolution_option |-> "automatic",
   refresh_rate_option |-> "automatic", hdr_option |-> "automatic",
   manual_resolution |-> <<>>, manual_refresh_rate |-> <<>>,
   output_name |-> <<"D", "P", "1">>]

VideoConfigs ==
  {BaseVideoConfig,
   [BaseVideoConfig EXCEPT !.configuration_option = "disabled"]}

Sessions ==
  {[enable_sops |-> TRUE, width |-> 2560, height |-> 1440, fps |-> 120, enable_hdr |-> TRUE],
   [enable_sops |-> TRUE, width |-> 0 - 1, height |-> 1440, fps |-> 120, enable_hdr |-> FALSE]}

\* configurations handed to configure_display(config) directly
Configs ==
  {[m_device_id |-> <<"X">>, m_device_prep |-> "EnsurePrimary",
    m_resolution |-> NullOpt, m_refresh_rate |-> NullOpt, m_hdr_state |-> "nullopt"]}

----------------------------------------------------------------------------
(* RetryScheduler<SettingsManagerInterface>                                *)

NullPtr == [nullptr |-> TRUE]

\* an empty std::function
NoFn == [kind |-> "none", try_once |-> FALSE, config |-> NullOpt, id |-> 0]

\* a freshly constructed scheduler around the settings manager iface; wait is
\* the time left until the scheduler's thread next wakes up
RetryScheduler(iface) ==
  [m_iface |-> iface, m_retry_function |-> NoFn, m_sleep_durations |-> <<>>, wait |-> 0]

\* a stop request: the loop is cleared
stopUnlocked(s) ==
  [s EXCEPT !.m_retry_function = NoFn, !.m_sleep_durations = <<>>, !.wait = 0]

\* the thread sleeps for the first duration and drops it unless it is the last
takeNextDuration(durations) ==
  [duration |-> Head(durations),
   rest |-> IF Len(durations) > 1 THEN Tail(durations) ELSE durations]

\* exec_fn becomes the loop of s, replacing whatever was there
syncThread(s, exec_fn, durations) ==
  [s EXCEPT !.m_retry_function = exec_fn,
            !.m_sleep_durations = takeNextDuration(durations).rest,
            !.wait = takeNextDuration(durations).duration]

\* results the settings manager may give to the call made by fn
Results(fn) == IF fn.kind = "revert" THEN BOOLEAN ELSE ApplyResult

\* the revert lambda stopping only for try_once, whatever revertSettings() returned
revert_lambda_try_once_only(try_once, r) == try_once

\* the revert lambda stopping on the attempts that failed
revert_lambda_stop_on_failure(try_once, r) == ~r \/ try_once

\* the lambda handed to schedule() by revert_configuration_unlocked:
\* TRUE when it requests stop after revertSettings() returned r
revert_lambda(try_once, r) == r \/ try_once

\* the apply lambda stopping on success only
apply_lambda_ok_only(r) == r = "Ok"

\* the lambda handed to schedule() by configure_display:
\* TRUE when it requests stop after applySettings(config) returned r
apply_lambda(r) == r # "ApiTemporarilyUnavailable"

invoke(fn, r) ==
  IF fn.kind = "revert" THEN revert_lambda(fn.try_once, r) ELSE apply_lambda(r)

SmCall(fn) == IF fn.kind = "revert" THEN "revertSettings" ELSE "applySettings"

\* one call of a scheduled function: who ran it, against which manager, the
\* result, whether stop was requested, time waited since the previous event
Attempt(s, fn, r, ctx, locked, waited) ==
  [call |-> SmCall(fn), iface |-> s.m_iface, id |-> fn.id, res |-> [v |-> r],
   stop |-> invoke(fn, r), ctx |-> ctx, locked |-> locked, waited |-> waited]

\* schedule(exec_fn, options): the outcomes [sm, events] it can have on s.
\* Unless the execution is ScheduledOnly, exec_fn runs once in the calling
\* thread; a stop request clears the loop, otherwise exec_fn replaces it.
schedule(s, exec_fn, options) ==
  IF options.m_execution # "ScheduledOnly"
    THEN {[sm |-> IF invoke(exec_fn, r)
                    THEN stopUnlocked(s)
                    ELSE syncThread(s, exec_fn, options.m_sleep_durations),
           events |-> <<Attempt(s, exec_fn, r, "caller", TRUE, 0)>>] :
            r \in Results(exec_fn)}
    ELSE {[sm |-> syncThread(s, exec_fn, options.m_sleep_durations),
           events |-> <<>>]}

\* What the settings manager has to revert: state is "changed" while a
\* configuration it applied is in effect and "original" when there is nothing
\* to revert; reverts counts, up to two, the revertSettings() calls that
\* returned true since the state last was "changed": the one that restored
\* the original state and those that followed it
Device(state, reverts) == [state |-> state, reverts |-> reverts]

\* the device after one call of the settings manager
DeviceAfterCall(d, e) ==
  CASE e.call = "applySettings" /\ e.res.v = "Ok" -> Device("changed", 0)
    [] e.call = "revertSettings" /\ e.res.v ->
         Device("original",
                IF d.state = "changed" THEN 1
                ELSE IF d.reverts = 1 THEN 2 ELSE d.reverts)
    [] e.call = "resetPersistence" /\ e.res.v -> Device("original", 0)
    [] OTHER -> d

\* the device after the calls of a step, in their order
RECURSIVE DeviceAfter(_, _)
DeviceAfter(d, events) ==
  IF Len(events) = 0 THEN d
  ELSE DeviceAfter(DeviceAfterCall(d, Head(events)), Tail(events))

----------------------------------------------------------------------------
(* State                                                                   *)

VARIABLES
  win32,                \* the build has a settings manager (_WIN32 defined)
  mutex,                \* DD_DATA.mutex: the caller holding it, 0 when free
  config_revert_delay,  \* DD_DATA.config_revert_delay
  sm_instance,          \* DD_DATA.sm_instance: NullPtr or the scheduler
  handles,              \* number of deinit_t handles alive
  pc,                   \* per caller: the step it is about to take
  arg,                  \* per caller: the arguments of the call in progress
  hist,                 \* record of the most recently scheduled operation
  last,                 \* what the most recent step of a call or of the thread did
  elapsed,              \* time since the loop was scheduled or last attempted
  device,               \* what the settings manager has to revert
  audio_context         \* the sunshine_audio_context_t and the audio session

vars == <<win32, mutex, config_revert_delay, sm_instance, handles,
          pc, arg, hist, last, elapsed, device, audio_context>>

NoArg == [none |-> TRUE]

NoHist ==
  [op |-> NoFn, option |-> "none", delay |-> 0, replaced |-> FALSE,
   results |-> <<>>, stops |-> 0, ended |-> "none"]

\* a sunshine_audio_context_t as constructed, no audio session alive
NoCapture ==
  [captured_context |-> FALSE, refs |-> 0, others |-> 0, pc |-> "idle",
   recent |-> "none", returned |-> "none", ret |-> FALSE,
   entry_captured |-> FALSE, lowest |-> 0]

NoLast ==
  [step |-> "none", arg |-> NoArg, events |-> <<>>, ret |-> NoArg, overlap |-> FALSE]

Init ==
  /\ win32 \in BOOLEAN
  /\ mutex = 0
  /\ config_revert_delay = 0
  /\ sm_instance = NullPtr
  /\ handles = 0
  /\ pc = [p \in Callers |-> "idle"]
  /\ arg = [p \in Callers |-> NoArg]
  /\ hist = NoHist
  /\ last = NoLast
  /\ elapsed = 0
  /\ device \in {Device("original", 0), Device("changed", 0)}
  /\ audio_context = NoCapture

\* the loop of the live scheduler, NoFn when there is none
ActiveLoop == IF sm_instance = NullPtr THEN NoFn ELSE sm_instance.m_retry_function

\* hist once the operation it records has lost its loop for the given reason
HistEnded(h, inst, why) ==
  IF h.ended = "active" /\ (inst = NullPtr \/ inst.m_retry_function.kind = "none")
    THEN [h EXCEPT !.ended = why] ELSE h

RECURSIVE CountStops(_)
CountStops(events) ==
  IF Len(events) = 0 THEN 0
  ELSE (IF Head(events).stop THEN 1 ELSE 0) + CountStops(Tail(events))

\* hist once exec_fn has been handed to schedule() of inst with outcome o
HistScheduled(exec_fn, option, delay, inst, o) ==
  [op |-> exec_fn, option |-> option, delay |-> delay,
   replaced |-> inst.m_retry_function.kind # "none",
   results |-> [i \in 1..Len(o.events) |-> o.events[i].res.v],
   stops |-> CountStops(o.events),
   ended |-> IF o.sm.m_retry_function.kind = "none" THEN "stopped" ELSE "active"]

\* the lock held by caller p
Locked(p) == mutex = p

\* another caller is inside an operation on DD_DATA while p runs one
Overlap(p) == \E q \in Callers \ {p} : pc[q] # "idle"

----------------------------------------------------------------------------
(* revert_configuration_unlocked                                           *)

\* the scheduler options without the switch to ScheduledOnly: the first
\* attempt is made at once whatever the delay
scheduler_option_immediate(option, delay) ==
  [m_sleep_durations |-> IF option = "try_indefinitely_with_delay" /\ delay > 0
                           THEN <<delay, DEFAULT_RETRY_INTERVAL>>
                           ELSE <<DEFAULT_RETRY_INTERVAL>>,
   m_execution |-> "Immediate"]

\* the scheduler options with every first attempt left to the scheduler's
\* thread
scheduler_option_scheduled_only(option, delay) ==
  [m_sleep_durations |-> IF option = "try_indefinitely_with_delay" /\ delay > 0
                           THEN <<delay, DEFAULT_RETRY_INTERVAL>>
                           ELSE <<DEFAULT_RETRY_INTERVAL>>,
   m_execution |-> "ScheduledOnly"]

\* revert_configuration_unlocked, lines 444-448: the scheduler options
scheduler_option(option, delay) ==
  LET with_delay == option = "try_indefinitely_with_delay" /\ delay > 0 IN
  [m_sleep_durations |-> IF with_delay
                           THEN <<delay, DEFAULT_RETRY_INTERVAL>>
                           ELSE <<DEFAULT_RETRY_INTERVAL>>,
   m_execution |-> IF with_delay THEN "ScheduledOnly" ELSE "Immediate"]

\* The outcomes [sm, events, hist] of revert_configuration_unlocked(option)
\* run on DD_DATA = (inst, delay) by a caller for which the lock is held as
\* locked says.
revert_configuration_unlocked(locked, inst, delay, h, option) ==
  IF inst = NullPtr
    THEN {[sm |-> inst, events |-> <<>>, hist |-> h]}
    ELSE LET exec_fn == [kind |-> "revert", try_once |-> option = "try_once",
                         config |-> NullOpt, id |-> 1 - h.op.id]
         IN  {[sm |-> o.sm,
               events |-> [i \in 1..Len(o.events) |->
                             [o.events[i] EXCEPT !.locked = locked]],
               hist |-> HistScheduled(exec_fn, option, delay, inst, o)] :
                o \in schedule(inst, exec_fn, scheduler_option(option, delay))}

----------------------------------------------------------------------------
(* init and the handle it returns                                          *)

\* make_settings_manager: the identity of the new manager, one the previous
\* manager did not have; 0 for nullptr
make_settings_manager(old) == IF win32 THEN (IF old = 1 THEN 2 ELSE 1) ELSE 0

\* init, lines 462-464: the lock is taken and the old configuration reverted, once
init_revert(p, delay) ==
  /\ pc[p] = "idle"
  /\ mutex = 0
  /\ handles < MaxHandles
  /\ mutex' = p
  /\ \E o \in revert_configuration_unlocked(TRUE, sm_instance, config_revert_delay,
                                             hist, "try_once") :
       /\ sm_instance' = o.sm
       /\ hist' = o.hist
       /\ last' = [step |-> "init_revert", arg |-> NoArg, events |-> o.events,
                   ret |-> NoArg, overlap |-> Overlap(p)]
  /\ elapsed' = 0
  /\ pc' = [pc EXCEPT ![p] = "init_discard"]
  /\ arg' = [arg EXCEPT ![p] =
               [delay |-> delay,
                old |-> IF sm_instance = NullPtr THEN 0 ELSE sm_instance.m_iface]]
  /\ device' = DeviceAfter(device, last'.events)
  /\ UNCHANGED audio_context
  /\ UNCHANGED <<win32, config_revert_delay, handles>>

\* init, lines 465-466: the delay is recorded and the old scheduler destroyed
init_discard(p) ==
  /\ pc[p] = "init_discard"
  /\ config_revert_delay' = arg[p].delay
  /\ sm_instance' = NullPtr
  /\ hist' = HistEnded(hist, NullPtr, "destroyed")
  /\ last' = [step |-> "init_discard", arg |-> arg[p], events |-> <<>>,
              ret |-> NoArg, overlap |-> Overlap(p)]
  /\ elapsed' = 0
  /\ pc' = [pc EXCEPT ![p] = "init_install"]
  /\ device' = DeviceAfter(device, last'.events)
  /\ UNCHANGED audio_context
  /\ UNCHANGED <<win32, mutex, handles, arg>>

\* init starting the revert on the new scheduler with the revert delay
init_install_with_delay(p) ==
  /\ pc[p] = "init_install"
  /\ LET settings_manager == make_settings_manager(arg[p].old) IN
     IF settings_manager # 0
       THEN \E o \in revert_configuration_unlocked(
                       Locked(p), RetryScheduler(settings_manager),
                       config_revert_delay, hist, "try_indefinitely_with_delay") :
              /\ sm_instance' = o.sm
              /\ hist' = o.hist
              /\ last' = [step |-> "init_install", arg |-> arg[p],
                          events |-> <<[call |-> "enumAvailableDevices",
                                        iface |-> settings_manager,
                                        ctx |-> "caller", locked |-> Locked(p),
                                        stop |-> FALSE]>>
                                     \o o.events,
                          ret |-> [handle |-> TRUE], overlap |-> Overlap(p)]
       ELSE /\ last' = [step |-> "init_install", arg |-> arg[p], events |-> <<>>,
                        ret |-> [handle |-> TRUE], overlap |-> Overlap(p)]
            /\ UNCHANGED <<sm_instance, hist>>
  /\ elapsed' = 0
  /\ handles' = handles + 1
  /\ mutex' = IF Locked(p) THEN 0 ELSE mutex
  /\ pc' = [pc EXCEPT ![p] = "idle"]
  /\ arg' = [arg EXCEPT ![p] = NoArg]
  /\ device' = DeviceAfter(device, last'.events)
  /\ UNCHANGED audio_context
  /\ UNCHANGED <<win32, config_revert_delay>>

\* init, lines 470-491: the new scheduler is installed, the devices are
\* enumerated, the revert is started; the lock is released and the handle returned
init_install(p) ==
  /\ pc[p] = "init_install"
  /\ LET settings_manager == make_settings_manager(arg[p].old) IN
     IF settings_manager # 0
       THEN \E o \in revert_configuration_unlocked(
                       Locked(p), RetryScheduler(settings_manager),
                       config_revert_delay, hist, "try_indefinitely") :
              /\ sm_instance' = o.sm
              /\ hist' = o.hist
              /\ last' = [step |-> "init_install", arg |-> arg[p],
                          events |-> <<[call |-> "enumAvailableDevices",
                                        iface |-> settings_manager,
                                        ctx |-> "caller", locked |-> Locked(p),
                                        stop |-> FALSE]>>
                                     \o o.events,
                          ret |-> [handle |-> TRUE], overlap |-> Overlap(p)]
       ELSE /\ last' = [step |-> "init_install", arg |-> arg[p], events |-> <<>>,
                        ret |-> [handle |-> TRUE], overlap |-> Overlap(p)]
            /\ UNCHANGED <<sm_instance, hist>>
  /\ elapsed' = 0
  /\ handles' = handles + 1
  /\ mutex' = IF Locked(p) THEN 0 ELSE mutex
  /\ pc' = [pc EXCEPT ![p] = "idle"]
  /\ arg' = [arg EXCEPT ![p] = NoArg]
  /\ device' = DeviceAfter(device, last'.events)
  /\ UNCHANGED audio_context
  /\ UNCHANGED <<win32, config_revert_delay>>

\* ~deinit_t, lines 485-486: a handle is released; the lock is taken and the
\* configuration reverted, once
deinit_revert(p) ==
  /\ pc[p] = "idle"
  /\ mutex = 0
  /\ handles > 0
  /\ handles' = handles - 1
  /\ mutex' = p
  /\ \E o \in revert_configuration_unlocked(TRUE, sm_instance, config_revert_delay,
                                             hist, "try_once") :
       /\ sm_instance' = o.sm
       /\ hist' = o.hist
       /\ last' = [step |-> "deinit_revert", arg |-> NoArg, events |-> o.events,
                   ret |-> NoArg, overlap |-> Overlap(p)]
  /\ elapsed' = 0
  /\ pc' = [pc EXCEPT ![p] = "deinit_discard"]
  /\ arg' = [arg EXCEPT ![p] = [had_scheduler |-> sm_instance # NullPtr]]
  /\ device' = DeviceAfter(device, last'.events)
  /\ UNCHANGED audio_context
  /\ UNCHANGED <<win32, config_revert_delay>>

\* ~deinit_t leaving the scheduler in place
deinit_discard_keep(p) ==
  /\ pc[p] = "deinit_discard"
  /\ UNCHANGED <<sm_instance, hist>>
  /\ last' = [step |-> "deinit_discard", arg |-> arg[p], events |-> <<>>,
              ret |-> NoArg, overlap |-> Overlap(p)]
  /\ elapsed' = 0
  /\ mutex' = IF Locked(p) THEN 0 ELSE mutex
  /\ pc' = [pc EXCEPT ![p] = "idle"]
  /\ arg' = [arg EXCEPT ![p] = NoArg]
  /\ device' = DeviceAfter(device, last'.events)
  /\ UNCHANGED audio_context
  /\ UNCHANGED <<win32, config_revert_delay, handles>>

\* ~deinit_t destroying the scheduler only when no other handle is out
deinit_discard_last_handle(p) ==
  /\ pc[p] = "deinit_discard"
  /\ sm_instance' = IF handles = 0 THEN NullPtr ELSE sm_instance
  /\ hist' = IF handles = 0 THEN HistEnded(hist, NullPtr, "destroyed") ELSE hist
  /\ last' = [step |-> "deinit_discard", arg |-> arg[p], events |-> <<>>,
              ret |-> NoArg, overlap |-> Overlap(p)]
  /\ elapsed' = 0
  /\ mutex' = IF Locked(p) THEN 0 ELSE mutex
  /\ pc' = [pc EXCEPT ![p] = "idle"]
  /\ arg' = [arg EXCEPT ![p] = NoArg]
  /\ device' = DeviceAfter(device, last'.events)
  /\ UNCHANGED audio_context
  /\ UNCHANGED <<win32, config_revert_delay, handles>>

\* ~deinit_t, lines 487-488: the scheduler is destroyed, the lock released
deinit_discard(p) ==
  /\ pc[p] = "deinit_discard"
  /\ sm_instance' = NullPtr
  /\ hist' = HistEnded(hist, NullPtr, "destroyed")
  /\ last' = [step |-> "deinit_discard", arg |-> arg[p], events |-> <<>>,
              ret |-> NoArg, overlap |-> Overlap(p)]
  /\ elapsed' = 0
  /\ mutex' = IF Locked(p) THEN 0 ELSE mutex
  /\ pc' = [pc EXCEPT ![p] = "idle"]
  /\ arg' = [arg EXCEPT ![p] = NoArg]
  /\ device' = DeviceAfter(device, last'.events)
  /\ UNCHANGED audio_context
  /\ UNCHANGED <<win32, config_revert_delay, handles>>

----------------------------------------------------------------------------
(* map_output_name, configure_display, revert_configuration,               *)
(* reset_persistence: each takes the lock, runs and releases it            *)

\* map_output_name answering the empty name when there is no scheduler
map_output_name_empty(p, output_name) ==
  /\ pc[p] = "idle"
  /\ mutex = 0
  /\ IF sm_instance = NullPtr
       THEN last' = [step |-> "map_output_name", arg |-> [output_name |-> output_name],
                     events |-> <<>>, ret |-> [value |-> <<>>],
                     overlap |-> Overlap(p)]
       ELSE \E name \in DisplayNames :
              last' = [step |-> "map_output_name",
                       arg |-> [output_name |-> output_name],
                       events |-> <<[call |-> "getDisplayName",
                                     iface |-> sm_instance.m_iface,
                                     ctx |-> "caller", locked |-> TRUE,
                                     stop |-> FALSE]>>,
                       ret |-> [value |-> name], overlap |-> Overlap(p)]
  /\ device' = DeviceAfter(device, last'.events)
  /\ UNCHANGED audio_context
  /\ UNCHANGED <<win32, mutex, config_revert_delay, sm_instance, handles, pc, arg,
                 hist, elapsed>>

\* map_output_name without the lock_guard
map_output_name_no_lock(p, output_name) ==
  /\ pc[p] = "idle"
  /\ IF sm_instance = NullPtr
       THEN last' = [step |-> "map_output_name", arg |-> [output_name |-> output_name],
                     events |-> <<>>, ret |-> [value |-> output_name],
                     overlap |-> Overlap(p)]
       ELSE \E name \in DisplayNames :
              last' = [step |-> "map_output_name",
                       arg |-> [output_name |-> output_name],
                       events |-> <<[call |-> "getDisplayName",
                                     iface |-> sm_instance.m_iface,
                                     ctx |-> "caller", locked |-> FALSE,
                                     stop |-> FALSE]>>,
                       ret |-> [value |-> name], overlap |-> Overlap(p)]
  /\ device' = DeviceAfter(device, last'.events)
  /\ UNCHANGED audio_context
  /\ UNCHANGED <<win32, mutex, config_revert_delay, sm_instance, handles, pc, arg,
                 hist, elapsed>>

\* map_output_name, lines 493-502
map_output_name(p, output_name) ==
  /\ pc[p] = "idle"
  /\ mutex = 0
  /\ IF sm_instance = NullPtr
       THEN last' = [step |-> "map_output_name", arg |-> [output_name |-> output_name],
                     events |-> <<>>, ret |-> [value |-> output_name],
                     overlap |-> Overlap(p)]
       ELSE \E name \in DisplayNames :
              last' = [step |-> "map_output_name",
                       arg |-> [output_name |-> output_name],
                       events |-> <<[call |-> "getDisplayName",
                                     iface |-> sm_instance.m_iface,
                                     ctx |-> "caller", locked |-> TRUE,
                                     stop |-> FALSE]>>,
                       ret |-> [value |-> name], overlap |-> Overlap(p)]
  /\ device' = DeviceAfter(device, last'.events)
  /\ UNCHANGED audio_context
  /\ UNCHANGED <<win32, mutex, config_revert_delay, sm_instance, handles, pc, arg,
                 hist, elapsed>>

\* How a step of configure_display(config) or revert_configuration() was
\* reached: called as such, or from configure_display(video_config, session),
\* lines 504-519, with these arguments
DirectCall ==
  [session_call |-> FALSE, video_config |-> NullOpt, session |-> NullOpt]

SessionCall(video_config, session) ==
  [session_call |-> TRUE, video_config |-> video_config, session |-> session]

\* configure_display(config) with the apply run once through execute() instead
\* of handed to schedule(): the loop in flight is left in place
configure_display_execute(p, config, via) ==
  /\ pc[p] = "idle"
  /\ mutex = 0
  /\ IF sm_instance = NullPtr
       THEN /\ last' = [step |-> "configure_display",
                        arg |-> [config |-> config, via |-> via],
                        events |-> <<>>, ret |-> NoArg, overlap |-> Overlap(p)]
            /\ UNCHANGED <<sm_instance, hist>>
       ELSE LET exec_fn == [kind |-> "apply", try_once |-> FALSE,
                            config |-> config, id |-> 1 - hist.op.id]
            IN  \E r \in Results(exec_fn) :
                  LET o == [sm |-> stopUnlocked(sm_instance),
                            events |-> <<Attempt(sm_instance, exec_fn, r, "caller",
                                                 TRUE, 0)>>]
                  IN
                  /\ UNCHANGED sm_instance
                  /\ hist' = HistScheduled(exec_fn, "apply", 0, sm_instance, o)
                  /\ last' = [step |-> "configure_display",
                              arg |-> [config |-> config, via |-> via],
                              events |-> o.events, ret |-> NoArg,
                              overlap |-> Overlap(p)]
  /\ elapsed' = elapsed
  /\ device' = DeviceAfter(device, last'.events)
  /\ UNCHANGED audio_context
  /\ UNCHANGED <<win32, mutex, config_revert_delay, handles, pc, arg>>

\* configure_display(config), lines 521-537; via tells whether the caller
\* is configure_display(video_config, session)
configure_display(p, config, via) ==
  /\ pc[p] = "idle"
  /\ mutex = 0
  /\ IF sm_instance = NullPtr
       THEN /\ last' = [step |-> "configure_display",
                        arg |-> [config |-> config, via |-> via],
                        events |-> <<>>, ret |-> NoArg, overlap |-> Overlap(p)]
            /\ UNCHANGED <<sm_instance, hist>>
       ELSE LET exec_fn == [kind |-> "apply", try_once |-> FALSE,
                            config |-> config, id |-> 1 - hist.op.id]
            IN  \E o \in schedule(sm_instance, exec_fn,
                                  [m_sleep_durations |-> <<DEFAULT_RETRY_INTERVAL>>,
                                   m_execution |-> "Immediate"]) :
                  /\ sm_instance' = o.sm
                  /\ hist' = HistScheduled(exec_fn, "apply", 0, sm_instance, o)
                  /\ last' = [step |-> "configure_display",
                              arg |-> [config |-> config, via |-> via],
                              events |-> o.events, ret |-> NoArg,
                              overlap |-> Overlap(p)]
  /\ elapsed' = 0
  /\ device' = DeviceAfter(device, last'.events)
  /\ UNCHANGED audio_context
  /\ UNCHANGED <<win32, mutex, config_revert_delay, handles, pc, arg>>

\* revert_configuration, lines 539-543; via as for configure_display
revert_configuration(p, via) ==
  /\ pc[p] = "idle"
  /\ mutex = 0
  /\ \E o \in revert_configuration_unlocked(TRUE, sm_instance, config_revert_delay,
                                             hist, "try_indefinitely_with_delay") :
       /\ sm_instance' = o.sm
       /\ hist' = o.hist
       /\ last' = [step |-> "revert_configuration", arg |-> [via |-> via],
                   events |-> o.events, ret |-> NoArg, overlap |-> Overlap(p)]
  /\ elapsed' = 0
  /\ device' = DeviceAfter(device, last'.events)
  /\ UNCHANGED audio_context
  /\ UNCHANGED <<win32, mutex, config_revert_delay, handles, pc, arg>>

\* configure_display(video_config, session) reverting when parsing failed
configure_display_session_revert_on_failure(p, video_config, session) ==
  \E result \in parse_configuration(video_config, session) :
    CASE result.tag = "config" -> configure_display(p, result.config, SessionCall(video_config, session))
      [] result.tag = "configuration_disabled" -> revert_configuration(p, SessionCall(video_config, session))
      [] OTHER -> revert_configuration(p, SessionCall(video_config, session))

\* configure_display(video_config, session) doing nothing when disabled
configure_display_session_ignore_disabled(p, video_config, session) ==
  \E result \in parse_configuration(video_config, session) :
    CASE result.tag = "config" -> configure_display(p, result.config, SessionCall(video_config, session))
      [] OTHER ->
           /\ pc[p] = "idle"
           /\ last' = [step |-> "configure_display_session",
                       arg |-> [via |-> SessionCall(video_config, session)],
                       events |-> <<>>, ret |-> result, overlap |-> FALSE]
           /\ UNCHANGED <<audio_context, device, win32, mutex, config_revert_delay, sm_instance, handles,
                          pc, arg, hist, elapsed>>

\* configure_display(video_config, session), lines 504-519: the configuration
\* is parsed and the call handed on to configure_display(config) or to
\* revert_configuration(), or dropped
configure_display_session(p, video_config, session) ==
  \E result \in parse_configuration(video_config, session) :
    CASE result.tag = "config" -> configure_display(p, result.config, SessionCall(video_config, session))
      [] result.tag = "configuration_disabled" -> revert_configuration(p, SessionCall(video_config, session))
      [] OTHER ->
           /\ pc[p] = "idle"
           /\ last' = [step |-> "configure_display_session",
                       arg |-> [via |-> SessionCall(video_config, session)],
                       events |-> <<>>, ret |-> result, overlap |-> FALSE]
           /\ UNCHANGED <<audio_context, device, win32, mutex, config_revert_delay, sm_instance, handles,
                          pc, arg, hist, elapsed>>

\* reset_persistence without the stop request
reset_persistence_no_stop(p) ==
  /\ pc[p] = "idle"
  /\ mutex = 0
  /\ IF sm_instance = NullPtr
       THEN /\ last' = [step |-> "reset_persistence", arg |-> NoArg,
                        events |-> <<>>, ret |-> [value |-> TRUE],
                        overlap |-> Overlap(p)]
            /\ UNCHANGED <<sm_instance, hist>>
       ELSE \E r \in BOOLEAN :
              /\ UNCHANGED <<sm_instance, hist>>
              /\ last' = [step |-> "reset_persistence", arg |-> NoArg,
                          events |-> <<[call |-> "resetPersistence",
                                        iface |-> sm_instance.m_iface,
                                        ctx |-> "caller", locked |-> TRUE,
                                        stop |-> FALSE, res |-> [v |-> r]]>>,
                          ret |-> [value |-> r], overlap |-> Overlap(p)]
  /\ elapsed' = elapsed
  /\ device' = DeviceAfter(device, last'.events)
  /\ UNCHANGED audio_context
  /\ UNCHANGED <<win32, mutex, config_revert_delay, handles, pc, arg>>

\* reset_persistence, lines 545-559: the lambda run by execute() requests stop,
\* then resets the persistence and returns the manager's result
reset_persistence(p) ==
  /\ pc[p] = "idle"
  /\ mutex = 0
  /\ IF sm_instance = NullPtr
       THEN /\ last' = [step |-> "reset_persistence", arg |-> NoArg,
                        events |-> <<>>, ret |-> [value |-> TRUE],
                        overlap |-> Overlap(p)]
            /\ UNCHANGED <<sm_instance, hist>>
       ELSE \E r \in BOOLEAN :
              /\ sm_instance' = stopUnlocked(sm_instance)
              /\ hist' = HistEnded(hist, stopUnlocked(sm_instance), "cancelled")
              /\ last' = [step |-> "reset_persistence", arg |-> NoArg,
                          events |-> <<[call |-> "requestStop",
                                        iface |-> sm_instance.m_iface,
                                        ctx |-> "caller", locked |-> TRUE,
                                        stop |-> TRUE],
                                       [call |-> "resetPersistence",
                                        iface |-> sm_instance.m_iface,
                                        ctx |-> "caller", locked |-> TRUE,
                                        stop |-> FALSE, res |-> [v |-> r]]>>,
                          ret |-> [value |-> r], overlap |-> Overlap(p)]
  /\ elapsed' = 0
  /\ device' = DeviceAfter(device, last'.events)
  /\ UNCHANGED audio_context
  /\ UNCHANGED <<win32, mutex, config_revert_delay, handles, pc, arg>>

----------------------------------------------------------------------------
(* The scheduler's thread and the passage of time                          *)

\* the thread wakes up after its sleep and runs the loop's function once
scheduler_thread ==
  /\ ActiveLoop.kind # "none"
  /\ sm_instance.wait = 0
  /\ Len(hist.results) < MaxAttempts
  /\ LET fn == sm_instance.m_retry_function IN
     \E r \in Results(fn) :
       LET a == Attempt(sm_instance, fn, r, "thread", FALSE, elapsed)
           next == takeNextDuration(sm_instance.m_sleep_durations)
           sm == IF a.stop THEN stopUnlocked(sm_instance)
                 ELSE [sm_instance EXCEPT !.m_sleep_durations = next.rest,
                                          !.wait = next.duration]
       IN  /\ sm_instance' = sm
           /\ hist' = IF fn.id = hist.op.id
                        THEN HistEnded([hist EXCEPT !.results = Append(@, r),
                                                    !.stops = @ + (IF a.stop THEN 1 ELSE 0)],
                                       sm, "stopped")
                        ELSE hist
           /\ last' = [step |-> "scheduler_thread", arg |-> NoArg,
                       events |-> <<a>>, ret |-> NoArg, overlap |-> FALSE]
  /\ elapsed' = 0
  /\ device' = DeviceAfter(device, last'.events)
  /\ UNCHANGED audio_context
  /\ UNCHANGED <<win32, mutex, config_revert_delay, handles, pc, arg>>

\* time passes while the thread sleeps
Tick ==
  /\ ActiveLoop.kind # "none"
  /\ sm_instance.wait > 0
  /\ LET d == IF sm_instance.wait < TickUnit THEN sm_instance.wait ELSE TickUnit IN
       /\ sm_instance' = [sm_instance EXCEPT !.wait = @ - d]
       /\ elapsed' = elapsed + d
  /\ UNCHANGED <<audio_context, device, win32, mutex, config_revert_delay, handles, pc, arg,
                 hist, last>>

----------------------------------------------------------------------------
(* Specification                                                           *)

Next ==
  \/ \E p \in Callers, delay \in Delays : init_revert(p, delay)
  \/ \E p \in Callers : init_discard(p)
  \/ \E p \in Callers : init_install(p)
  \/ \E p \in Callers : deinit_revert(p)
  \/ \E p \in Callers : deinit_discard(p)
  \/ \E p \in Callers, output_name \in OutputNames : map_output_name(p, output_name)
  \/ \E p \in Callers, config \in Configs : configure_display(p, config, DirectCall)
  \/ \E p \in Callers : revert_configuration(p, DirectCall)
  \/ \E p \in Callers, video_config \in VideoConfigs, session \in Sessions :
       configure_display_session(p, video_config, session)
  \/ \E p \in Callers : reset_persistence(p)
  \/ scheduler_thread
  \/ Tick

Spec == Init /\ [][Next]_vars

----------------------------------------------------------------------------
(* Properties                                                              *)

\* the single event of the most recent step, when that step was an attempt
\* made by the scheduler's thread
ThreadAttempted == last.step = "scheduler_thread"

\* C1: at most one apply/revert loop is active, it sits on the live scheduler
\* and it is the operation scheduled most recently; an attempt made by the
\* scheduler's thread always belongs to the most recently scheduled operation,
\* so nothing of a replaced operation runs after the new one was scheduled.
C1_OneLoopLatestOperation ==
  /\ ActiveLoop.kind # "none" =>
       /\ sm_instance # NullPtr
       /\ ActiveLoop = hist.op
       /\ hist.ended = "active"
  /\ hist.ended # "active" => ActiveLoop.kind = "none"
  /\ ThreadAttempted =>
       /\ last.events[1].id = hist.op.id
       /\ last.events[1].call = SmCall(hist.op)

\* C1 witness: an operation replaced a loop in flight and the thread then
\* made an attempt of the new operation
C1_Witness ==
  /\ hist.replaced
  /\ ThreadAttempted
  /\ last.events[1].id = hist.op.id
  /\ hist.ended = "active"

\* C2: for an apply loop that was not cancelled or destroyed, every attempt
\* but the last returned ApiTemporarilyUnavailable; while the last result is
\* ApiTemporarilyUnavailable the loop stays armed with the fixed interval and
\* no stop was requested; the first other result requests stop exactly once
\* and leaves no loop, so apply is not called again.  Three
\* ApiTemporarilyUnavailable and then Ok give four calls and one stop request.
C2_ApplyRetriesOnlyTransient ==
  (hist.op.kind = "apply" /\ hist.ended \in {"active", "stopped"}) =>
    LET n == Len(hist.results) IN
    /\ n >= 1
    /\ \A i \in 1..(n - 1) : hist.results[i] = "ApiTemporarilyUnavailable"
    /\ hist.results[n] = "ApiTemporarilyUnavailable" =>
         /\ hist.stops = 0
         /\ hist.ended = "active"
         /\ ActiveLoop = hist.op
         /\ sm_instance.m_sleep_durations = <<DEFAULT_RETRY_INTERVAL>>
         /\ sm_instance.wait + elapsed = DEFAULT_RETRY_INTERVAL
    /\ hist.results[n] # "ApiTemporarilyUnavailable" =>
         /\ hist.stops = 1
         /\ hist.ended = "stopped"
         /\ ActiveLoop.kind = "none"
    /\ (ThreadAttempted /\ last.events[1].id = hist.op.id) =>
         last.events[1].waited >= DEFAULT_RETRY_INTERVAL
    /\ (n >= 4 /\ hist.results[4] = "Ok") => (n = 4 /\ hist.stops = 1)

\* C2 witness: apply returned ApiTemporarilyUnavailable three times, then Ok
C2_Witness ==
  /\ hist.op.kind = "apply"
  /\ hist.results = <<"ApiTemporarilyUnavailable", "ApiTemporarilyUnavailable",
                      "ApiTemporarilyUnavailable", "Ok">>
  /\ hist.stops = 1
  /\ ActiveLoop.kind = "none"

\* C3: a step of a configure_display(video_config, session) call whose
\* configuration fails to parse changes nothing: the scheduler handle with its loop, timer
\* and pending attempt, the revert delay, the lock, every caller's position
\* and the record of scheduled operations stay as they were.
C3_ParseFailedNoAction ==
  [][(/\ last'.step \in {"configure_display_session", "configure_display",
                          "revert_configuration"}
      /\ last'.arg.via.session_call
      /\ ~Tick)
     => \A video_config \in VideoConfigs, session \in Sessions :
       (/\ last'.arg.via = SessionCall(video_config, session)
        /\ parse_configuration(video_config, session) = {failed_to_parse_tag_t})
       => UNCHANGED <<sm_instance, config_revert_delay, mutex, pc, arg, hist,
                      elapsed, handles, device>>]_vars

\* C3 witness: the parse failed while an apply loop was waiting for its next
\* attempt, and the loop is still waiting
C3_Witness ==
  /\ last.step = "configure_display_session"
  /\ last.ret = failed_to_parse_tag_t
  /\ ActiveLoop.kind = "apply"
  /\ sm_instance.wait > 0
  /\ config_revert_delay > 0

\* C4: every step of a configure_display(video_config, session) call acts on
\* the parser's result for that video_config and session.  A configuration c makes it the call configure_display(c): with a
\* scheduler in place, the operation scheduled is an apply of exactly c.  A
\* disabled configuration makes it the call revert_configuration(): with a
\* scheduler in place, the operation scheduled is the try-indefinitely revert
\* with the revert delay, and no apply loop is left.  Anything else schedules
\* nothing.
C4_DispatchOnParseOutcome ==
  [][(/\ last'.step \in {"configure_display_session", "configure_display",
                          "revert_configuration"}
      /\ last'.arg.via.session_call
      /\ ~Tick)
     => \A video_config \in VideoConfigs, session \in Sessions :
       last'.arg.via = SessionCall(video_config, session) =>
         \E p \in Callers, result \in parse_configuration(video_config, session) :
           CASE result.tag = "config" ->
                  /\ configure_display(p, result.config, SessionCall(video_config, session))
                  /\ sm_instance # NullPtr =>
                       /\ hist'.op.kind = "apply"
                       /\ hist'.op.config = result.config
                       /\ hist'.op.id # hist.op.id
                       /\ Len(last'.events) = 1
                       /\ last'.events[1].call = "applySettings"
                       /\ sm_instance'.m_retry_function.kind # "none" =>
                            sm_instance'.m_retry_function = hist'.op
             [] result.tag = "configuration_disabled" ->
                  /\ revert_configuration(p, SessionCall(video_config, session))
                  /\ sm_instance # NullPtr =>
                       /\ hist'.op.kind = "revert"
                       /\ ~hist'.op.try_once
                       /\ hist'.op.id # hist.op.id
                       /\ hist'.option = "try_indefinitely_with_delay"
                       /\ hist'.delay = config_revert_delay
                       /\ sm_instance'.m_retry_function.kind # "apply"
                       /\ sm_instance'.m_retry_function.kind # "none" =>
                            sm_instance'.m_retry_function = hist'.op
             [] OTHER -> UNCHANGED <<sm_instance, hist>>]_vars

\* C4 witness: a disabled configuration scheduled a delayed revert in place of
\* an apply loop that was in flight
C4_Witness ==
  /\ last.step = "revert_configuration"
  /\ last.arg.via.session_call
  /\ hist.replaced
  /\ ActiveLoop.kind = "revert"
  /\ hist.delay > 0

\* C5: revert_configuration() delays the first attempt only.  With a revert
\* delay above zero the call itself makes no attempt, the first attempt is made
\* by the scheduler's thread once the delay has passed since the call, and
\* every later attempt follows the previous one by the retry interval; with a
\* delay of zero the call makes the first attempt itself.
C5_RevertDelaysFirstAttemptOnly ==
  /\ (last.step = "revert_configuration" /\ sm_instance # NullPtr) =>
       /\ hist.option = "try_indefinitely_with_delay"
       /\ hist.delay = config_revert_delay
       /\ hist.delay > 0 =>
            /\ last.events = <<>>
            /\ hist.results = <<>>
            /\ ActiveLoop = hist.op
            /\ sm_instance.m_sleep_durations = <<DEFAULT_RETRY_INTERVAL>>
       /\ hist.delay <= 0 =>
            /\ Len(last.events) = 1
            /\ last.events[1].call = "revertSettings"
            /\ last.events[1].ctx = "caller"
  /\ (hist.option = "try_indefinitely_with_delay" /\ hist.ended = "active") =>
       sm_instance.wait + elapsed =
         (IF hist.delay > 0 /\ hist.results = <<>>
            THEN hist.delay ELSE DEFAULT_RETRY_INTERVAL)
  /\ (/\ ThreadAttempted
      /\ hist.option = "try_indefinitely_with_delay"
      /\ last.events[1].id = hist.op.id) =>
       last.events[1].waited >=
         (IF hist.delay > 0 /\ Len(hist.results) = 1
            THEN hist.delay ELSE DEFAULT_RETRY_INTERVAL)

\* C5 witness: a delayed revert made its first attempt after the delay and a
\* second one after the retry interval
C5_Witness ==
  /\ ThreadAttempted
  /\ hist.option = "try_indefinitely_with_delay"
  /\ hist.delay > 0
  /\ hist.delay # DEFAULT_RETRY_INTERVAL
  /\ Len(hist.results) = 2
  /\ last.events[1].waited = DEFAULT_RETRY_INTERVAL

\* C6: init makes at most one revert attempt on the old settings manager, with
\* no loop left behind, while the old scheduler is still there; the old
\* scheduler is then destroyed; when a new settings manager is made, the new
\* scheduler is installed and a try-indefinitely revert is started on it
\* whose first attempt is made by init itself, whatever the revert delay.
C6_InitOrder ==
  /\ \A p \in Callers :
       (pc[p] = "init_discard" /\ last.step = "init_revert") =>
         IF sm_instance = NullPtr
           THEN last.events = <<>> /\ arg[p].old = 0
           ELSE /\ Len(last.events) = 1
                /\ last.events[1].call = "revertSettings"
                /\ last.events[1].ctx = "caller"
                /\ last.events[1].iface = sm_instance.m_iface
                /\ arg[p].old = sm_instance.m_iface
                /\ hist.op.try_once
                /\ ActiveLoop.kind = "none"
  /\ last.step = "init_discard" => sm_instance = NullPtr
  /\ (last.step = "init_install" /\ ~win32) =>
       sm_instance = NullPtr /\ last.events = <<>>
  /\ (last.step = "init_install" /\ win32) =>
       /\ sm_instance # NullPtr
       /\ sm_instance.m_iface # last.arg.old
       /\ Len(last.events) = 2
       /\ last.events[1].call = "enumAvailableDevices"
       /\ last.events[1].iface = sm_instance.m_iface
       /\ last.events[2].call = "revertSettings"
       /\ last.events[2].ctx = "caller"
       /\ last.events[2].iface = sm_instance.m_iface
       /\ last.events[2].waited = 0
       /\ hist.option = "try_indefinitely"
       /\ ~hist.op.try_once
       /\ ~hist.replaced
       /\ IF last.events[2].stop
            THEN ActiveLoop.kind = "none"
            ELSE /\ ActiveLoop = hist.op
                 /\ sm_instance.wait + elapsed = DEFAULT_RETRY_INTERVAL

\* C6 witness: a re-initialization over a live scheduler, with a revert delay
\* above zero, whose revert on the new manager failed and is being retried
C6_Witness ==
  /\ last.step = "init_install"
  /\ last.arg.old # 0
  /\ config_revert_delay > 0
  /\ ~last.events[2].res.v
  /\ ActiveLoop.kind = "revert"

\* C7: the release of a handle makes exactly one revert attempt when there is
\* a scheduler and none when there is not, whatever the attempt returns, with
\* the scheduler still in place and no loop left on it; the scheduler is
\* destroyed after that, and with it every loop, so that nothing is attempted
\* until init installs a scheduler again.
C7_ReleaseRevertsOnceThenDiscards ==
  /\ \A p \in Callers :
       (pc[p] = "deinit_discard" /\ last.step = "deinit_revert") =>
         /\ arg[p].had_scheduler = (sm_instance # NullPtr)
         /\ Len(last.events) = (IF arg[p].had_scheduler THEN 1 ELSE 0)
         /\ arg[p].had_scheduler =>
              /\ last.events[1].call = "revertSettings"
              /\ last.events[1].ctx = "caller"
              /\ last.events[1].iface = sm_instance.m_iface
              /\ last.events[1].stop
              /\ ActiveLoop.kind = "none"
  /\ last.step = "deinit_discard" =>
       /\ sm_instance = NullPtr
       /\ hist.ended # "active"
  /\ ThreadAttempted =>
       /\ sm_instance # NullPtr
       /\ last.events[1].iface = sm_instance.m_iface

\* C7 witness: a handle was released while a loop was in flight; the single
\* attempt failed and the scheduler is gone
C7_Witness ==
  /\ last.step = "deinit_discard"
  /\ last.arg.had_scheduler
  /\ hist.replaced
  /\ hist.results = <<FALSE>>
  /\ hist.op.try_once

\* C8: with a scheduler in place reset_persistence requests stop before it
\* calls resetPersistence, whatever that returns; the loop that was in flight
\* is gone when it returns, so no attempt of it is made afterwards, and the
\* value returned is the settings manager's.
C8_ResetCancelsThenResets ==
  /\ (last.step = "reset_persistence" /\ sm_instance # NullPtr) =>
       /\ Len(last.events) = 2
       /\ last.events[1].call = "requestStop"
       /\ last.events[2].call = "resetPersistence"
       /\ last.ret.value = last.events[2].res.v
       /\ ActiveLoop.kind = "none"
       /\ hist.ended # "active"
  /\ hist.ended = "cancelled" => ActiveLoop.kind = "none"
  /\ ThreadAttempted => hist.ended # "cancelled"

\* C8 witness: a delayed revert that had made no attempt yet was cancelled by
\* reset_persistence, which returned the manager's FALSE
C8_Witness ==
  /\ last.step = "reset_persistence"
  /\ hist.ended = "cancelled"
  /\ hist.option = "try_indefinitely_with_delay"
  /\ hist.results = <<>>
  /\ last.ret.value = FALSE

\* C9: on a platform without a settings manager the scheduler handle is never
\* set, nothing is ever scheduled, no settings manager operation is ever called,
\* map_output_name returns its argument and reset_persistence returns true.
C9_UnsupportedPlatformPassThrough ==
  ~win32 =>
    /\ sm_instance = NullPtr
    /\ hist = NoHist
    /\ last.events = <<>>
    /\ last.step = "map_output_name" => last.ret.value = last.arg.output_name
    /\ last.step = "reset_persistence" => last.ret.value = TRUE

\* C9 witness: after an init on such a platform map_output_name gave back the
\* name it was given
C9_Witness ==
  /\ ~win32
  /\ handles > 0
  /\ last.step = "map_output_name"
  /\ last.ret.value = <<"X">>

\* C10: a caller is between the steps of init or of ~deinit_t only while it
\* holds the lock, no two callers are there at once, every settings manager
\* call made by a caller is made under the lock, and no operation on DD_DATA
\* runs while another caller is between the steps of init or of ~deinit_t.
C10_CallsSerialized ==
  /\ \A p \in Callers : pc[p] # "idle" => mutex = p
  /\ \A p, q \in Callers :
       (p # q /\ pc[p] # "idle") => pc[q] = "idle"
  /\ \A i \in 1..Len(last.events) :
       last.events[i].ctx = "caller" => last.events[i].locked
  /\ ~last.overlap

\* C10 witness: a caller holds the lock inside init after the old scheduler
\* was destroyed and before the new one is installed
C10_Witness ==
  \E p \in Callers :
    /\ pc[p] = "init_install"
    /\ arg[p].old # 0
    /\ sm_instance = NullPtr
    /\ mutex = p

\* an apply or revert attempt among the events of the most recent step
IsAttempt(e) == e.call \in {"applySettings", "revertSettings"}

\* C11 as stated: every attempt of a scheduled apply or revert is made by the
\* scheduler's thread while the caller's lock on DD_DATA is not held.
C11_EveryAttemptOffLock ==
  \A i \in 1..Len(last.events) :
    IsAttempt(last.events[i]) =>
      (last.events[i].ctx = "thread" /\ ~last.events[i].locked)

\* C11, amended: an attempt made by the scheduler's thread is made without
\* the lock on DD_DATA; an attempt made by a caller is made under the lock, is
\* the first attempt of the operation the caller has just scheduled, and is
\* made exactly when the operation is not a delayed revert: configure_display
\* with a scheduler in place, init on the scheduler it installs and
\* revert_configuration with a delay of zero all make it.
C11_FirstAttemptInCallerUnderLock ==
  /\ \A i \in 1..Len(last.events) :
       IsAttempt(last.events[i]) =>
         IF last.events[i].ctx = "thread"
           THEN ThreadAttempted /\ ~last.events[i].locked
           ELSE /\ last.events[i].locked
                /\ last.events[i].waited = 0
                /\ last.events[i].id = hist.op.id
                /\ Len(hist.results) = 1
                /\ ~(hist.option = "try_indefinitely_with_delay" /\ hist.delay > 0)
  /\ (last.step = "configure_display" /\ sm_instance # NullPtr) =>
       /\ Len(last.events) = 1
       /\ last.events[1].call = "applySettings"
       /\ last.events[1].ctx = "caller"
  /\ (last.step = "init_install" /\ sm_instance # NullPtr) =>
       /\ Len(last.events) = 2
       /\ last.events[2].call = "revertSettings"
       /\ last.events[2].ctx = "caller"
  /\ (last.step = "revert_configuration" /\ sm_instance # NullPtr
        /\ config_revert_delay <= 0) =>
       /\ Len(last.events) = 1
       /\ last.events[1].call = "revertSettings"
       /\ last.events[1].ctx = "caller"

\* C11 witness: the first attempt of an apply was made by the caller under
\* the lock and the second by the scheduler's thread without it
C11_Witness ==
  /\ ThreadAttempted
  /\ hist.op.kind = "apply"
  /\ last.events[1].id = hist.op.id
  /\ Len(hist.results) = 2
  /\ ~last.events[1].locked

----------------------------------------------------------------------------
(* The orchestrator over a settings manager that keeps its contract:       *)
(* revertSettings() returns true when there is nothing to revert           *)

\* every revertSettings() call of the step, made with nothing to revert,
\* returned true
ManagerConforms ==
  \A i \in 1..Len(last'.events) :
    (last'.events[i].call = "revertSettings" /\ device.state = "original") =>
      last'.events[i].res.v

NextDevice ==
  \/ \E p \in Callers, delay \in Delays : init_revert(p, delay) /\ ManagerConforms
  \/ \E p \in Callers : init_discard(p) /\ ManagerConforms
  \/ \E p \in Callers : init_install(p) /\ ManagerConforms
  \/ \E p \in Callers : deinit_revert(p) /\ ManagerConforms
  \/ \E p \in Callers : deinit_discard(p) /\ ManagerConforms
  \/ \E p \in Callers, output_name \in OutputNames :
       map_output_name(p, output_name) /\ ManagerConforms
  \/ \E p \in Callers, config \in Configs :
       configure_display(p, config, DirectCall) /\ ManagerConforms
  \/ \E p \in Callers : revert_configuration(p, DirectCall) /\ ManagerConforms
  \/ \E p \in Callers, video_config \in VideoConfigs, session \in Sessions :
       configure_display_session(p, video_config, session) /\ ManagerConforms
  \/ \E p \in Callers : reset_persistence(p) /\ ManagerConforms
  \/ scheduler_thread /\ ManagerConforms
  \/ Tick

SpecDevice == Init /\ [][NextDevice]_vars

\* C12: with nothing to revert (a revert attempt has returned true and no
\* configuration was applied since, or nothing was ever applied), every
\* further revert attempt returns true, requests stop, leaves the device as
\* it is and leaves no loop behind: a revert loop started then ends with its
\* first attempt, and a second revert() leaves the device as the first did.
C12_RevertIsFixedPoint ==
  [][(~Tick /\ device.state = "original") =>
       \A i \in 1..Len(last'.events) :
         last'.events[i].call = "revertSettings" =>
           /\ last'.events[i].res.v
           /\ last'.events[i].stop
           /\ device'.state = "original"
           /\ ActiveLoop'.kind = "none"]_vars

\* C12 witness: a revert attempt restored the original state; the most recent
\* operation is a later revert() that found no loop in flight, and its only
\* attempt returned true
C12_Witness ==
  /\ hist.option = "try_indefinitely_with_delay"
  /\ hist.results = <<TRUE>>
  /\ hist.ended = "stopped"
  /\ ~hist.replaced
  /\ device = Device("original", 2)

----------------------------------------------------------------------------
(* The configuration parser on its own: an input is drawn, then the        *)
(* function it is meant for is applied to it                               *)

\* longest string built from Alphabet that is handed to the string parsers
MaxStrLen == 3

Alphabet == {"0", "1", "9", "x", ".", " "}

RECURSIVE StringsUpTo(_)
StringsUpTo(n) ==
  IF n = 0 THEN {<<>>}
  ELSE LET shorter == StringsUpTo(n - 1) IN
       shorter \cup {Append(s, c) : s \in {t \in shorter : Len(t) = n - 1}, c \in Alphabet}

\* unsigned int values written out as "{w}x{h}"
NumValues ==
  {U32(0), U32(7), U32(1920), [hi |-> 1, lo |-> 0], [hi |-> Limb - 1, lo |-> Limb - 1]}

DigitChar(d) == CHOOSE c \in Digits : DigitVal(c) = d

\* the decimal digits of an unsigned int, most significant first
RECURSIVE to_string_acc(_, _)
to_string_acc(v, acc) ==
  IF v.hi = 0 /\ v.lo = 0 THEN acc
  ELSE LET t == (v.hi % 10) * Limb + v.lo IN
       to_string_acc([hi |-> v.hi \div 10, lo |-> t \div 10],
                     <<DigitChar(t % 10)>> \o acc)

to_string(v) == IF v.hi = 0 /\ v.lo = 0 THEN <<"0">> ELSE to_string_acc(v, <<>>)

\* "{w}x{h}"
FormatResolution(w, h) == to_string(w) \o <<"x">> \o to_string(h)

\* strings handed to parse_resolution_string
ResolutionStrings ==
  StringsUpTo(MaxStrLen)
    \cup {FormatResolution(w, h) : w \in NumValues, h \in NumValues}
    \cup {<<" ", "1", "9", "2", "0", "x", "1", "0", "8", "0", " ">>,
          <<"a", "b", "c">>,
          <<"1", "9", "2", "0", "x">>,
          <<"1", "9", "2", "0", "X", "1", "0", "8", "0">>,
          <<"0", "0", "1", "9", "2", "0", "x", "0", "1", "0", "8", "0">>,
          <<"4", "2", "9", "4", "9", "6", "7", "2", "9", "6", "x", "1">>,
          <<"1", "x", "4", "2", "9", "4", "9", "6", "7", "2", "9", "6">>,
          <<"1", "x", "9", "9", "9", "9", "9", "9", "9", "9", "9", "9", "9", "9",
            "9", "9", "9", "9", "9", "9", "9", "9", "9", "9">>}

\* strings handed to parse_refresh_rate_string
RefreshRateStrings ==
  StringsUpTo(MaxStrLen)
    \cup {<<"6", "0">>,
          <<"5", "9", ".", "9", "9", "5">>,
          <<"0", "0", "0", "5", "9", ".", "9", "5", "0", "0">>,
          <<" ", "1", "2", "0", " ">>,
          <<"6", "0", ".">>,
          <<"a", "b", "c">>,
          <<"4", "2", "9", "4", "9", "6", "7", "2", "9", "5">>,
          <<"4", "2", "9", "4", "9", "6", "7", "2", "9", "6">>,
          <<"4", "2", "9", "4", "9", "6", "7", ".", "2", "9", "6">>,
          <<"1", ".", "0", "0", "0", "0", "0", "0", "0", "0", "1">>,
          <<"0", ".", "0", "0", "0", "0", "0", "0", "0", "0", "0", "1">>,
          <<"0", ".", "0", "0", "0", "0", "0", "0", "0", "0", "0", "0", "1">>}

\* manual strings of the user configurations handed to parse_configuration
ManualResolutions ==
  {<<>>, <<" ">>, <<"1", "9", "2", "0", "x", "1", "0", "8", "0">>,
   <<"1", "9", "2", "0", "x">>}

ManualRefreshRates ==
  {<<>>, <<" ">>, <<"5", "9", ".", "9", "5">>, <<"a", "b", "c">>}

ParserVideoConfigs ==
  [configuration_option : {"disabled", "verify_only", "ensure_active",
                           "ensure_primary", "ensure_only_display"},
   resolution_option : {"disabled", "automatic", "manual"},
   refresh_rate_option : {"disabled", "automatic", "manual"},
   hdr_option : {"disabled", "automatic"},
   manual_resolution : ManualResolutions,
   manual_refresh_rate : ManualRefreshRates,
   output_name : {<<"D", "P", "1">>}]

ParserSessions ==
  [enable_sops : BOOLEAN, width : {0 - 1, 1920}, height : {0 - 1, 1080},
   fps : {0 - 1, 60}, enable_hdr : BOOLEAN]

\* an input waiting for the function fn
ParserInput(fn, input, video_config, session) ==
  [step |-> "input",
   arg |-> [fn |-> fn, input |-> input, video_config |-> video_config,
            session |-> session],
   events |-> <<>>, ret |-> NoArg, overlap |-> FALSE]

InitParse ==
  /\ win32 = FALSE
  /\ mutex = 0
  /\ config_revert_delay = 0
  /\ sm_instance = NullPtr
  /\ handles = 0
  /\ pc = [p \in Callers |-> "idle"]
  /\ arg = [p \in Callers |-> NoArg]
  /\ hist = NoHist
  /\ elapsed = 0
  /\ device = Device("original", 0)
  /\ audio_context = NoCapture
  /\ \/ \E s \in ResolutionStrings :
          last = ParserInput("parse_resolution_string", s, NoArg, NoArg)
     \/ \E s \in RefreshRateStrings :
          last = ParserInput("parse_refresh_rate_string", s, NoArg, NoArg)
     \/ \E v \in ParserVideoConfigs, s \in ParserSessions :
          last = ParserInput("parse_configuration", <<>>, v, s)

\* what is left alone by the parser
ParserFrame ==
  UNCHANGED <<win32, mutex, config_revert_delay, sm_instance, handles, pc, arg,
              hist, elapsed, device, audio_context>>

\* parse_resolution_string(input, output) called with an empty output
parse_resolution_string_call ==
  /\ last.step = "input"
  /\ last.arg.fn = "parse_resolution_string"
  /\ last' = [last EXCEPT !.step = "parse_resolution_string",
                          !.ret = parse_resolution_string(last.arg.input, NullOpt)]
  /\ ParserFrame

\* parse_refresh_rate_string(input, output) called with an empty output
parse_refresh_rate_string_call ==
  /\ last.step = "input"
  /\ last.arg.fn = "parse_refresh_rate_string"
  /\ \E r \in parse_refresh_rate_string(last.arg.input, NullOpt) :
       last' = [last EXCEPT !.step = "parse_refresh_rate_string", !.ret = r]
  /\ ParserFrame

\* parse_configuration(video_config, session)
parse_configuration_call ==
  /\ last.step = "input"
  /\ last.arg.fn = "parse_configuration"
  /\ \E r \in parse_configuration(last.arg.video_config, last.arg.session) :
       last' = [last EXCEPT !.step = "parse_configuration", !.ret = r]
  /\ ParserFrame

NextParse ==
  \/ parse_resolution_string_call
  \/ parse_refresh_rate_string_call
  \/ parse_configuration_call

SpecParse == InitParse /\ [][NextParse]_vars

\* the inputs and the result of the most recent parse_configuration call
ParsedConfiguration == last.step = "parse_configuration"

ParsedVideoConfig == last.arg.video_config

ParsedSession == last.arg.session

\* the manual resolution string does not parse
BadManualResolution == <<"1", "9", "2", "0", "x">>

\* the manual refresh rate string does not parse
BadManualRefreshRate == <<"a", "b", "c">>

\* C13: parse_configuration with the device preparation option "disabled"
\* returns the configuration-disabled tag for every combination of the other
\* options, of the manual strings (valid or not) and of the session fields; no
\* failure of a sub-derivation turns the result into the failed-to-parse tag
C13_DisabledPrepAlwaysDisabled ==
  (ParsedConfiguration /\ ParsedVideoConfig.configuration_option = "disabled")
    => last.ret = configuration_disabled_tag_t

\* device preparation disabled while every sub-derivation would have failed
C13_Witness ==
  /\ ParsedConfiguration
  /\ ParsedVideoConfig.configuration_option = "disabled"
  /\ ParsedVideoConfig.resolution_option = "manual"
  /\ ParsedVideoConfig.manual_resolution = BadManualResolution
  /\ ParsedVideoConfig.refresh_rate_option = "manual"
  /\ ParsedVideoConfig.manual_refresh_rate = BadManualRefreshRate
  /\ ParsedSession.enable_sops
  /\ ParsedSession.width < 0
  /\ ParsedSession.fps < 0
  /\ last.ret = configuration_disabled_tag_t

\* the refresh rate derivation of the parsed inputs fails: automatic with a
\* negative session fps, or manual with a string that, parsed on its own, is
\* rejected or gives no value
RefreshRateDerivationFails ==
  \/ /\ ParsedVideoConfig.refresh_rate_option = "automatic"
     /\ ParsedSession.fps < 0
  \/ /\ ParsedVideoConfig.refresh_rate_option = "manual"
     /\ \A r \in parse_refresh_rate_string(ParsedVideoConfig.manual_refresh_rate, NullOpt) :
          ~r.ret \/ r.output = NullOpt

\* C14 as stated: with resolution option "automatic" and enable_sops false,
\* parse_configuration never returns the failed-to-parse tag and leaves the
\* resolution unset, whatever the other options and session fields are
C14_AutomaticNoSopsNeverFails ==
  (/\ ParsedConfiguration
   /\ ParsedVideoConfig.resolution_option = "automatic"
   /\ ~ParsedSession.enable_sops)
    => /\ last.ret # failed_to_parse_tag_t
       /\ last.ret.tag = "config" => last.ret.config.m_resolution = NullOpt

\* C14: with resolution option "automatic" and enable_sops false the resolution
\* derivation never fails, whatever the session width and height are, and a
\* returned configuration has its resolution unset; parse_configuration returns
\* the failed-to-parse tag exactly when device preparation is enabled and the
\* refresh rate derivation fails, and the disabled tag exactly when device
\* preparation is disabled
C14_AutomaticNoSopsFailsOnlyOnRefreshRate ==
  (/\ ParsedConfiguration
   /\ ParsedVideoConfig.resolution_option = "automatic"
   /\ ~ParsedSession.enable_sops)
    => /\ last.ret = failed_to_parse_tag_t
            <=> (/\ ParsedVideoConfig.configuration_option # "disabled"
                 /\ RefreshRateDerivationFails)
       /\ last.ret = configuration_disabled_tag_t
            <=> ParsedVideoConfig.configuration_option = "disabled"
       /\ last.ret.tag = "config" => last.ret.config.m_resolution = NullOpt

\* a configuration returned with the resolution unset although the session
\* width and height are negative
C14_Witness ==
  /\ ParsedConfiguration
  /\ ParsedVideoConfig.resolution_option = "automatic"
  /\ ~ParsedSession.enable_sops
  /\ ParsedSession.width < 0
  /\ ParsedSession.height < 0
  /\ last.ret.tag = "config"
  /\ last.ret.config.m_resolution = NullOpt
  /\ last.ret.config.m_refresh_rate # NullOpt

\* C15 as stated: with resolution option "automatic", enable_sops true and a
\* negative session width parse_configuration returns the failed-to-parse tag,
\* whatever the remaining options and session fields are
C15_NegativeWidthAlwaysFails ==
  (/\ ParsedConfiguration
   /\ ParsedVideoConfig.resolution_option = "automatic"
   /\ ParsedSession.enable_sops
   /\ ParsedSession.width < 0)
    => last.ret = failed_to_parse_tag_t

\* C15: with device preparation enabled, resolution option "automatic",
\* enable_sops true and a negative session width or height parse_configuration
\* returns the failed-to-parse tag, whatever the remaining options and session
\* fields are; with device preparation disabled it returns the disabled tag
C15_NegativeWidthFailsUnlessDisabled ==
  (/\ ParsedConfiguration
   /\ ParsedVideoConfig.resolution_option = "automatic"
   /\ ParsedSession.enable_sops
   /\ (ParsedSession.width < 0 \/ ParsedSession.height < 0))
    => last.ret = IF ParsedVideoConfig.configuration_option = "disabled"
                    THEN configuration_disabled_tag_t
                    ELSE failed_to_parse_tag_t

\* a negative width alone, with everything else valid, fails the parse
C15_Witness ==
  /\ ParsedConfiguration
  /\ ParsedVideoConfig.configuration_option = "ensure_active"
  /\ ParsedVideoConfig.resolution_option = "automatic"
  /\ ParsedVideoConfig.refresh_rate_option = "automatic"
  /\ ParsedSession.enable_sops
  /\ ParsedSession.width < 0
  /\ ParsedSession.height >= 0
  /\ ParsedSession.fps >= 0
  /\ last.ret = failed_to_parse_tag_t

\* a string that is empty once trimmed
Blank(s) == Len(trim_copy(s)) = 0

\* C16 as stated: with device preparation enabled, resolution option "manual"
\* with a blank manual resolution, or refresh rate option "manual" with a blank
\* manual refresh rate, gives the failed-to-parse tag for every session
C16_BlankManualAlwaysFails ==
  (/\ ParsedConfiguration
   /\ ParsedVideoConfig.configuration_option # "disabled"
   /\ \/ /\ ParsedVideoConfig.resolution_option = "manual"
         /\ Blank(ParsedVideoConfig.manual_resolution)
      \/ /\ ParsedVideoConfig.refresh_rate_option = "manual"
         /\ Blank(ParsedVideoConfig.manual_refresh_rate))
    => last.ret = failed_to_parse_tag_t

\* C16: with device preparation enabled, refresh rate option "manual" with a
\* blank manual refresh rate gives the failed-to-parse tag for every session,
\* and resolution option "manual" with a blank manual resolution gives it for
\* every session with enable_sops true; with enable_sops false the manual
\* resolution is not parsed and the result is the one the refresh rate
\* derivation gives, with the resolution unset. The same blank strings parsed on
\* their own are accepted without a value.
C16_BlankManualFailsWhenParsed ==
  (/\ ParsedConfiguration
   /\ ParsedVideoConfig.configuration_option # "disabled")
    => /\ (/\ ParsedVideoConfig.refresh_rate_option = "manual"
           /\ Blank(ParsedVideoConfig.manual_refresh_rate))
            => /\ last.ret = failed_to_parse_tag_t
               /\ parse_refresh_rate_string(ParsedVideoConfig.manual_refresh_rate, NullOpt)
                    = {[ret |-> TRUE, output |-> NullOpt]}
       /\ (/\ ParsedVideoConfig.resolution_option = "manual"
           /\ Blank(ParsedVideoConfig.manual_resolution))
            => /\ parse_resolution_string(ParsedVideoConfig.manual_resolution, NullOpt)
                    = [ret |-> TRUE, output |-> NullOpt]
               /\ ParsedSession.enable_sops => last.ret = failed_to_parse_tag_t
               /\ ~ParsedSession.enable_sops
                    => /\ last.ret = failed_to_parse_tag_t <=> RefreshRateDerivationFails
                       /\ last.ret.tag = "config"
                            => last.ret.config.m_resolution = NullOpt

\* a blank manual resolution is the only thing wrong and the parse fails
C16_Witness ==
  /\ ParsedConfiguration
  /\ ParsedVideoConfig.configuration_option = "verify_only"
  /\ ParsedVideoConfig.resolution_option = "manual"
  /\ ParsedVideoConfig.manual_resolution = <<" ">>
  /\ ParsedVideoConfig.refresh_rate_option = "disabled"
  /\ ParsedSession.enable_sops
  /\ last.ret = failed_to_parse_tag_t

\* the inputs and the result of the most recent parse_refresh_rate_string call
ParsedRefreshRate == last.step = "parse_refresh_rate_string"

Rational(numerator, denominator) ==
  [m_numerator |-> U32(numerator), m_denominator |-> U32(denominator)]

\* s is N or N.F written without surrounding blanks
PlainRefreshRate(s) == refresh_rate_regex(s).matched

\* s with one more zero in front and, when it has a fractional part, one more
\* zero behind
ZeroPadded(s) ==
  <<"0">> \o s \o (IF IndexOf(s, ".") # 0 THEN <<"0">> ELSE <<>>)

\* C17 as stated: "60" gives Rational{60,1}, "59.995" gives
\* Rational{59995,1000}, "00059.9500" gives Rational{59950,100} and "" gives
\* no value
C17_ListedResults ==
  ParsedRefreshRate
    => /\ last.arg.input = <<"6", "0">>
            => last.ret = [ret |-> TRUE, output |-> Rational(60, 1)]
       /\ last.arg.input = <<"5", "9", ".", "9", "9", "5">>
            => last.ret = [ret |-> TRUE, output |-> Rational(59995, 1000)]
       /\ last.arg.input = <<"0", "0", "0", "5", "9", ".", "9", "5", "0", "0">>
            => last.ret = [ret |-> TRUE, output |-> Rational(59950, 100)]
       /\ last.arg.input = <<>>
            => last.ret = [ret |-> TRUE, output |-> NullOpt]

\* C17: parse_refresh_rate_string drops the leading zeros of the integer part
\* and the trailing zeros of the fractional part, so that a plain input and the
\* same input with one more zero in front and behind give the same result;
\* "60" gives Rational{60,1}, "59.995" gives Rational{59995,1000},
\* "00059.9500" gives Rational{5995,100} and "" gives no value
C17_TrimmedResults ==
  ParsedRefreshRate
    => /\ last.arg.input = <<"6", "0">>
            => last.ret = [ret |-> TRUE, output |-> Rational(60, 1)]
       /\ last.arg.input = <<"5", "9", ".", "9", "9", "5">>
            => last.ret = [ret |-> TRUE, output |-> Rational(59995, 1000)]
       /\ last.arg.input = <<"0", "0", "0", "5", "9", ".", "9", "5", "0", "0">>
            => last.ret = [ret |-> TRUE, output |-> Rational(5995, 100)]
       /\ last.arg.input = <<>>
            => last.ret = [ret |-> TRUE, output |-> NullOpt]
       /\ PlainRefreshRate(last.arg.input)
            => last.ret \in parse_refresh_rate_string(ZeroPadded(last.arg.input), NullOpt)

\* the input with leading and trailing zeros has been parsed
C17_Witness ==
  /\ ParsedRefreshRate
  /\ last.arg.input = <<"0", "0", "0", "5", "9", ".", "9", "5", "0", "0">>
  /\ last.ret = [ret |-> TRUE, output |-> Rational(5995, 100)]

\* the fractional digits parse_refresh_rate_string keeps of a matching input
KeptFractionDigits(s) ==
  LET match == refresh_rate_regex(trim_copy(s))
  IN  IF match.m2_matched THEN trim_right_copy_if(match.m2, {"0"}) ELSE <<>>

\* the digits of the numerator of a matching input, without leading zeros
NumeratorDigits(s) ==
  LET match == refresh_rate_regex(trim_copy(s))
      digits == trim_left_copy_if(match.m1 \o KeptFractionDigits(s), {"0"})
  IN  IF Len(digits) = 0 THEN <<"0">> ELSE digits

\* C18: whenever parse_refresh_rate_string accepts an input with a value, the
\* denominator is 10^n for the number n of fractional digits kept and the
\* numerator is the exact value of the concatenated digits; an input whose
\* denominator 10^n does not fit an unsigned int is rejected
C18_DenominatorIsPowerOfTen ==
  (ParsedRefreshRate /\ refresh_rate_regex(trim_copy(last.arg.input)).matched)
    => LET n == Len(KeptFractionDigits(last.arg.input))
       IN  /\ n > MaxPow10Exp => ~last.ret.ret
           /\ last.ret.ret
                => /\ n <= MaxPow10Exp
                   /\ last.ret.output.m_denominator = pow10(n)
                   /\ to_string(last.ret.output.m_numerator) = NumeratorDigits(last.arg.input)

\* the inputs and the result of the most recent parse_resolution_string call
ParsedResolution == last.step = "parse_resolution_string"

UIntMax == [hi |-> Limb - 1, lo |-> Limb - 1]

\* t is a group of digits, an "x" and a group of digits
DigitsXDigits(t) ==
  \E i \in 2..(Len(t) - 1) :
    /\ t[i] = "x"
    /\ \A j \in 1..Len(t) : j # i => t[j] \in Digits

\* the digit group before (n = 1) or after (n = 2) the "x" of t, without its
\* leading zeros
DigitGroup(t, n) ==
  LET i == IndexOf(t, "x")
      group == IF n = 1 THEN SubSeq(t, 1, i - 1) ELSE SubSeq(t, i + 1, Len(t))
      digits == trim_left_copy_if(group, {"0"})
  IN  IF Len(digits) = 0 THEN <<"0">> ELSE digits

\* a is the larger of two digit strings of the same length
RECURSIVE DigitsGreater(_, _)
DigitsGreater(a, b) ==
  /\ Len(a) > 0
  /\ \/ DigitVal(a[1]) > DigitVal(b[1])
     \/ a[1] = b[1] /\ DigitsGreater(Tail(a), Tail(b))

\* the value of a digit string without leading zeros exceeds UINT_MAX
Overflows(digits) ==
  \/ Len(digits) > Len(to_string(UIntMax))
  \/ Len(digits) = Len(to_string(UIntMax)) /\ DigitsGreater(digits, to_string(UIntMax))

\* C19: parse_resolution_string gives Resolution{w,h} for "{w}x{h}", for the
\* unsigned int values w and h written out in decimal, and more generally the
\* values of the two digit groups of every input of the form digits-x-digits
\* whose groups fit an unsigned int; a blank input is accepted without a value;
\* a non-blank input that is not digits-x-digits once trimmed, or one with a
\* digit group above UINT_MAX, is rejected and the output is left empty, and
\* parse_configuration then returns the failed-to-parse tag
C19_ResolutionRoundTrip ==
  /\ ParsedResolution
       => LET t == trim_copy(last.arg.input) IN
          /\ \A w \in NumValues, h \in NumValues :
               last.arg.input = FormatResolution(w, h)
                 => last.ret = [ret |-> TRUE, output |-> [m_width |-> w, m_height |-> h]]
          /\ Len(t) = 0 => last.ret = [ret |-> TRUE, output |-> NullOpt]
          /\ (Len(t) > 0 /\ ~DigitsXDigits(t))
               => last.ret = [ret |-> FALSE, output |-> NullOpt]
          /\ DigitsXDigits(t)
               => IF Overflows(DigitGroup(t, 1)) \/ Overflows(DigitGroup(t, 2))
                    THEN last.ret = [ret |-> FALSE, output |-> NullOpt]
                    ELSE /\ last.ret.ret
                         /\ to_string(last.ret.output.m_width) = DigitGroup(t, 1)
                         /\ to_string(last.ret.output.m_height) = DigitGroup(t, 2)
  /\ (/\ ParsedConfiguration
      /\ ParsedVideoConfig.configuration_option # "disabled"
      /\ ParsedVideoConfig.resolution_option = "manual"
      /\ ParsedVideoConfig.manual_resolution = BadManualResolution
      /\ ParsedSession.enable_sops)
       => last.ret = failed_to_parse_tag_t

\* the largest width an unsigned int holds has been parsed
C19_Witness ==
  /\ ParsedResolution
  /\ last.arg.input = FormatResolution(UIntMax, U32(1920))
  /\ last.ret = [ret |-> TRUE, output |-> [m_width |-> UIntMax, m_height |-> U32(1920)]]

----------------------------------------------------------------------------
(* sunshine_audio_context_t on its own, with the reference-counted audio   *)
(* session its audio_ctx_ref keeps alive                                   *)

\* references to the audio session held by others than the guard
MaxOtherRefs == 3

Min(a, b) == IF a < b THEN a ELSE b

\* audio::get_audio_ctx_ref(): one more reference to the session, which is
\* created when there was none
get_audio_ctx_ref(refs) == refs + 1

\* a reference is dropped; the session ends with its last reference
audio_ctx_ref_reset(refs) == refs - 1

\* variant: the assignment overwrites the held reference without dropping it
optional_assign_leak(captured, refs) == refs

\* captured_context = <temporary>: the reference the optional already holds is
\* dropped, the temporary's reference is moved in
optional_assign(captured, refs) ==
  IF captured THEN audio_ctx_ref_reset(refs) ELSE refs

AudioFrame ==
  UNCHANGED <<win32, mutex, config_revert_delay, sm_instance, handles, pc, arg,
              hist, last, elapsed, device>>

\* capture(), first half: the temporary audio_context_t {} is constructed and
\* takes its reference
capture_temporary ==
  /\ audio_context.pc = "idle"
  /\ audio_context' =
       [audio_context EXCEPT !.pc = "capture",
                             !.refs = get_audio_ctx_ref(audio_context.refs),
                             !.entry_captured = audio_context.captured_context,
                             !.lowest = audio_context.refs]
  /\ AudioFrame

\* capture(), second half: the temporary is assigned to captured_context and
\* true is returned
capture ==
  /\ audio_context.pc = "capture"
  /\ LET refs == optional_assign(audio_context.captured_context, audio_context.refs)
     IN  audio_context' =
           [audio_context EXCEPT !.pc = "idle",
                                 !.captured_context = TRUE,
                                 !.refs = refs,
                                 !.lowest = Min(audio_context.lowest, refs),
                                 !.recent = "capture",
                                 !.returned = "capture",
                                 !.ret = TRUE]
  /\ AudioFrame

isCaptured ==
  /\ audio_context.pc = "idle"
  /\ audio_context' =
       [audio_context EXCEPT !.returned = "isCaptured",
                             !.ret = audio_context.captured_context]
  /\ AudioFrame

\* release(): after the sleep captured_context is emptied
release ==
  /\ audio_context.pc = "idle"
  /\ audio_context' =
       [audio_context EXCEPT !.captured_context = FALSE,
                             !.refs = IF audio_context.captured_context
                                        THEN audio_ctx_ref_reset(audio_context.refs)
                                        ELSE audio_context.refs,
                             !.recent = "release",
                             !.returned = "release",
                             !.ret = FALSE]
  /\ AudioFrame

\* someone else takes a reference to the audio session
other_ref_taken ==
  /\ audio_context.others < MaxOtherRefs
  /\ audio_context' =
       [audio_context EXCEPT !.refs = get_audio_ctx_ref(audio_context.refs),
                             !.others = audio_context.others + 1]
  /\ AudioFrame

\* someone else drops the reference it took
other_ref_dropped ==
  /\ audio_context.others > 0
  /\ audio_context' =
       [audio_context EXCEPT !.refs = audio_ctx_ref_reset(audio_context.refs),
                             !.others = audio_context.others - 1,
                             !.lowest = IF audio_context.pc = "capture"
                                          THEN Min(audio_context.lowest,
                                                   audio_ctx_ref_reset(audio_context.refs))
                                          ELSE audio_context.lowest]
  /\ AudioFrame

InitAudio ==
  /\ win32 = FALSE
  /\ mutex = 0
  /\ config_revert_delay = 0
  /\ sm_instance = NullPtr
  /\ handles = 0
  /\ pc = [p \in Callers |-> "idle"]
  /\ arg = [p \in Callers |-> NoArg]
  /\ hist = NoHist
  /\ last = NoLast
  /\ elapsed = 0
  /\ device = Device("original", 0)
  /\ audio_context = NoCapture

NextAudio ==
  \/ capture_temporary
  \/ capture
  \/ isCaptured
  \/ release
  \/ other_ref_taken
  \/ other_ref_dropped

SpecAudio == InitAudio /\ [][NextAudio]_vars

\* references to the audio session held by the guard, the temporary of a
\* capture() in progress included
OwnRefs == audio_context.refs - audio_context.others

\* C20: after any sequence of capture(), release() and isCaptured() calls,
\* whatever references others take and drop meanwhile:
\* capture() has returned true; between calls captured_context is set exactly
\* when the most recent of the capture() and release() calls was capture(), and
\* isCaptured() has returned just that; the guard holds one reference to the
\* audio session when captured and none otherwise, so a second capture() adds
\* none; and during a capture() that started captured the session's reference
\* count never was zero
C20_CaptureIdempotent ==
  /\ audio_context.returned = "capture" => audio_context.ret
  /\ audio_context.pc = "idle"
       => /\ audio_context.captured_context <=> audio_context.recent = "capture"
          /\ OwnRefs = IF audio_context.captured_context THEN 1 ELSE 0
  /\ audio_context.returned = "isCaptured"
       => (audio_context.ret <=> audio_context.recent = "capture")
  /\ audio_context.pc = "capture"
       => OwnRefs = IF audio_context.captured_context THEN 2 ELSE 1
  /\ (audio_context.recent = "capture" /\ audio_context.entry_captured)
       => audio_context.lowest >= 1

\* a second capture() has returned while the guard was the only holder of the
\* audio session
C20_Witness ==
  /\ audio_context.pc = "idle"
  /\ audio_context.returned = "capture"
  /\ audio_context.entry_captured
  /\ audio_context.others = 0
  /\ audio_context.refs = 1
  /\ audio_context.lowest = 1

----------------------------------------------------------------------------
(* The scheduler's thread under fair scheduling                            *)

\* the steps around a revert loop: the calls that schedule a revert, cancel
\* the loop or discard the scheduler, the scheduler's thread and time
NextRevert ==
  \/ \E p \in Callers, delay \in Delays : init_revert(p, delay)
  \/ \E p \in Callers : init_discard(p)
  \/ \E p \in Callers : init_install(p)
  \/ \E p \in Callers : deinit_revert(p)
  \/ \E p \in Callers : deinit_discard(p)
  \/ \E p \in Callers : revert_configuration(p, DirectCall)
  \/ \E p \in Callers : reset_persistence(p)
  \/ scheduler_thread
  \/ Tick

\* the scheduler's thread is a thread of its own and time passes: a sleep that
\* can go on does go on, and a thread whose sleep is over does run; the
\* callers are under no obligation
SpecRevertFair ==
  Init /\ [][NextRevert]_vars /\ WF_vars(Tick) /\ WF_vars(scheduler_thread)

\* the operation scheduled most recently is a try-indefinitely revert
TryIndefinitelyRevert == hist.op.kind = "revert" /\ ~hist.op.try_once

\* the loop of the try-indefinitely revert with identity id is waiting for its
\* next attempt after having made n attempts
RevertLoopWaiting(id, n) ==
  /\ TryIndefinitelyRevert
  /\ hist.ended = "active"
  /\ hist.op.id = id
  /\ Len(hist.results) = n

\* the steps that schedule an operation, cancel the loop or discard the
\* scheduler
SchedulingSteps ==
  {"init_revert", "init_discard", "init_install", "deinit_revert", "deinit_discard",
   "configure_display", "revert_configuration", "reset_persistence"}

\* what the record of a try-indefinitely revert looks like at any time: every
\* attempt but the last returned false; while the loop is active no attempt
\* returned true, no stop was requested and the timer runs to the retry
\* interval once an attempt has been made; a loop that stopped did so with its
\* one stop request, on an attempt that returned true and is the last attempt
RevertLoopRecord ==
  TryIndefinitelyRevert =>
    /\ \A i \in 1..(Len(hist.results) - 1) : ~hist.results[i]
    /\ hist.ended = "active" =>
         /\ \A i \in 1..Len(hist.results) : ~hist.results[i]
         /\ hist.stops = 0
         /\ ActiveLoop = hist.op
         /\ sm_instance.m_sleep_durations = <<DEFAULT_RETRY_INTERVAL>>
         /\ Len(hist.results) > 0 =>
              sm_instance.wait + elapsed = DEFAULT_RETRY_INTERVAL
    /\ hist.ended = "stopped" =>
         /\ Len(hist.results) > 0
         /\ hist.results[Len(hist.results)]
         /\ hist.stops = 1
         /\ ActiveLoop.kind = "none"
    /\ (ThreadAttempted /\ last.events[1].id = hist.op.id) =>
         /\ last.events[1].call = "revertSettings"
         /\ last.events[1].stop <=> last.events[1].res.v
         /\ Len(hist.results) > 1 => last.events[1].waited = DEFAULT_RETRY_INTERVAL

\* a waiting try-indefinitely loop goes away only by an attempt that returned
\* true or by a step that schedules, cancels or discards
RevertLoopEndsOnlyBy ==
  [][(/\ TryIndefinitelyRevert
      /\ hist.ended = "active"
      /\ ~(TryIndefinitelyRevert' /\ hist'.ended = "active" /\ hist'.op.id = hist.op.id))
     => \/ /\ last'.step = "scheduler_thread"
           /\ last'.events[1].res.v
           /\ last'.events[1].stop
        \/ last'.step \in SchedulingSteps]_vars

\* C21: a try-indefinitely revert loop repeats revertSettings() at the retry
\* interval for as long as it returns false, requests stop on the first
\* attempt that returns true and makes no attempt after it; it ends only by
\* such an attempt or by a step that schedules a new operation, resets the
\* persistence, re-initializes or releases a handle; and with the scheduler's
\* thread scheduled fairly a waiting loop always gets its next attempt (up to
\* MaxAttempts attempts) unless one of those steps takes it away first, so
\* that it stops once an attempt returns true and goes on while none does
C21_RevertLoopRepeatsUntilTrue ==
  /\ []RevertLoopRecord
  /\ RevertLoopEndsOnlyBy
  /\ \A id \in {0, 1}, n \in 0..(MaxAttempts - 1) :
       RevertLoopWaiting(id, n) ~> ~RevertLoopWaiting(id, n)

\* a try-indefinitely revert failed as often as it may before it succeeded
C21_Witness ==
  /\ TryIndefinitelyRevert
  /\ hist.option = "try_indefinitely"
  /\ ~hist.replaced
  /\ hist.ended = "stopped"
  /\ Len(hist.results) = MaxAttempts
  /\ ThreadAttempted
  /\ last.events[1].waited = DEFAULT_RETRY_INTERVAL

----------------------------------------------------------------------------
(* The handles of several inits                                            *)

\* ~deinit_t has no members: its revert and its discard act on DD_DATA as it
\* is when the handle is released, however many handles are still out
ReleaseActsOnLiveScheduler ==
  /\ \A p \in Callers :
       (pc[p] = "deinit_discard" /\ last.step = "deinit_revert") =>
         IF sm_instance = NullPtr
           THEN last.events = <<>>
           ELSE /\ Len(last.events) = 1
                /\ last.events[1].call = "revertSettings"
                /\ last.events[1].iface = sm_instance.m_iface
                /\ hist.op.kind = "revert" /\ hist.op.try_once
                /\ hist.results = <<last.events[1].res.v>>
  /\ last.step = "deinit_discard" =>
       /\ sm_instance = NullPtr
       /\ ActiveLoop.kind = "none"
       /\ handles \in 0..(MaxHandles - 1)

\* without a scheduler configure_display(config) and revert_configuration()
\* call nothing and map_output_name gives back the name it was given
NoSchedulerPassThrough ==
  sm_instance = NullPtr =>
    /\ last.step \in {"configure_display", "revert_configuration"} =>
         last.events = <<>>
    /\ last.step = "map_output_name" =>
         last.events = <<>> /\ last.ret.value = last.arg.output_name

\* without a scheduler configure_display(config) and revert_configuration()
\* change nothing of DD_DATA, of the loops or of the device
NoSchedulerNoOp ==
  [][(/\ sm_instance = NullPtr
      /\ last'.step \in {"configure_display", "revert_configuration"}
      /\ \A p \in Callers : pc[p] = "idle" /\ pc'[p] = "idle")
     => UNCHANGED <<sm_instance, config_revert_delay, handles, hist, device>>]_vars

\* a scheduler is installed by init only
SchedulerInstalledByInitOnly ==
  [][(sm_instance = NullPtr /\ sm_instance' # NullPtr)
     => last'.step = "init_install"]_vars

\* C22: the release of a handle reverts once on the scheduler that is live at
\* that moment, whichever init installed it and however many handles are still
\* out, and then discards it; from then on configure_display(config) and
\* revert_configuration() do nothing and map_output_name gives back its
\* argument, until init installs a scheduler again.
C22_ReleaseNotBoundToInit ==
  /\ []ReleaseActsOnLiveScheduler
  /\ []NoSchedulerPassThrough
  /\ NoSchedulerNoOp
  /\ SchedulerInstalledByInitOnly

\* C22 witness: two handles were out over the scheduler of the second init;
\* one was released, its revert was attempted and the scheduler discarded, and
\* with the other handle still out map_output_name gave back its argument
C22_Witness ==
  /\ win32
  /\ handles = 1
  /\ sm_instance = NullPtr
  /\ hist.op.kind = "revert" /\ hist.op.try_once
  /\ Len(hist.results) = 1
  /\ last.step = "map_output_name"
  /\ last.ret.value = last.arg.output_name

====
